---- MODULE Spec2Model ----
(***************************************************************************)
(* Model of the alerts & incident service of smart-tourist-safety-SIH:     *)
(* SOS ingestion (routes/alerts.py), spatio-temporal clustering            *)
(* (services/clustering_service.py) and the alerts / incidents tables      *)
(* (database.py).                                                          *)
(*                                                                         *)
(* Every `await` of create_sos_alert is a point where another request may  *)
(* run, so the handler is split into one action per awaited database or    *)
(* Redis operation.  Each request owns its own AsyncSession; the ORM       *)
(* object `alert` it holds is the per-request copy alertObj[r].            *)
(*                                                                         *)
(* The call to the ML service (lines 53-63) only prints and is left out.   *)
(* The refresh of line 39 is folded into the INSERT step: the only field   *)
(* it could load differently is the status / incident_id of the session's  *)
(* copy, which the handler overwrites or re-reads before using it.         *)
(*                                                                         *)
(* Coordinates are taken on a local kilometre grid (one unit of lat or lng *)
(* is one kilometre of arc), so the great-circle distance of               *)
(* calculate_distance is the Euclidean distance of the grid; distances are *)
(* compared by their squares to stay in the integers.  Time is counted in  *)
(* hours.                                                                  *)
(*                                                                         *)
(* The incident endpoints update_incident and generate_efir                *)
(* (routes/incidents.py) work on the same incidents table.                 *)
(*                                                                         *)
(* The blockchain bridge (blockchain_service/main.py) is a separate        *)
(* process with its own table blockchain_tx, its own clock (seconds) and   *)
(* one background task, monitor_transaction_confirmations.  Strings that   *)
(* are validated character by character (payload_hash) are sequences of    *)
(* one-character strings.  Metadata and the target_id derived from it are  *)
(* carried through unchanged by the bridge and are left out.               *)
(***************************************************************************)
EXTENDS Integers, Sequences, FiniteSets, TLC

\* ---------------------------------------------------------------- bounds
\* number of create_sos_alert requests that may be issued
NReq == 3
\* the clock (hours) stops advancing here
MaxTime == 3
\* number of submissions that may reach the ledger
NTx == 2
\* the bridge's clock (seconds) stops advancing here
MaxClock == 4
\* documents composed in one run of the e-FIR service
MaxCompositions == 2
\* number of generate_efir requests that may run at the same time
NGen == 2

\* ------------------------------------------------------- program constants
\* settings.incident_cluster_threshold
Threshold == 3
\* settings.incident_cluster_radius_km
RadiusKm == 2
\* settings.incident_cluster_time_window_hours
WindowHours == 2
\* Column(Float, nullable=True): the value None of lat / lng
NoCoord == -1
\* Column(String, ForeignKey(...), nullable=True): the value None of incident_id
NoIncident == 0
\* IncidentUpdate.priority: Optional[int] = None, the value None
NoPriority == -1
\* INTERVAL '2 seconds' of the monitor's query
ConfirmAfter == 2
\* LIMIT 10 of the monitor's query
BatchLimit == 10
\* required length of payload_hash
HashLen == 64
\* block_no = hash(tx_id) % 1000000
BlockModulus == 1000000
\* confirmed_at TIMESTAMP (nullable): the value NULL
NoTime == -1
\* raw_response without the key block_no
NoBlock == -1

\* ------------------------------------------------------------ input sets
Reqs == 1..NReq
\* concurrent evidence-generation requests
Gens == 1..NGen
\* alert identifiers a caller may send (caller-generated, may repeat)
AlertIds == 1..NReq
\* (lat, lng) pairs a caller may send; None (for either) and 0 included
Places ==
  { <<1, 1>>, <<3, 1>>, <<6, 1>>, <<0, 1>>, <<NoCoord, 1>>, <<1, NoCoord>> }

VARIABLES
  now,        \* datetime.utcnow(), in hours
  alerts,     \* table "alerts": set of rows
  incidents,  \* table "incidents": set of rows
  events,     \* events handed to Redis PUBLISH
  pc,         \* per request: position in create_sos_alert
  alertObj,   \* per request: the ORM object `alert` of its session
  decision,   \* per request: (should_create_incident, related_alert_ids)
  resp,       \* per request: outcome returned to the caller
  reply,      \* outcome of the last incident or bridge call
  use_fake_blockchain,  \* alerts service: settings.use_fake_blockchain
  waiter,     \* bridge client: a caller inside wait_for_confirmation
  alert_data, \* per request: the timestamp field of the body it was sent with
  efir,       \* e-FIR service: the documents composed so far, with their inputs
  generation, \* per evidence request: position and locals in generate_efir
  dev_mode,       \* bridge: FABRIC_DEV_MODE
  utcnow,         \* bridge: datetime.utcnow() / NOW(), in seconds
  blockchain_tx,  \* bridge: table "blockchain_tx": set of rows
  fabric_calls,   \* bridge: number of calls of fabric_client.submit_transaction
  monitor,        \* bridge: position and locals of the monitor task
  channel         \* bridge: messages published on "blockchain.tx.confirmed"

vars == <<now, alerts, incidents, events, pc, alertObj, decision, resp,
          reply, use_fake_blockchain, waiter, efir, generation, alert_data, dev_mode, utcnow, blockchain_tx, fabric_calls, monitor, channel>>

\* what create_sos_alert, once it has built its Alert, never touches
opsVars == <<reply, use_fake_blockchain, waiter, efir, generation, alert_data, dev_mode, utcnow, blockchain_tx, fabric_calls, monitor, channel>>

\* what the incident endpoints never touch
bridgeVars == <<use_fake_blockchain, waiter, efir, generation, alert_data, dev_mode, utcnow, blockchain_tx, fabric_calls, monitor, channel>>

\* what the bridge never touches
alertsVars == <<now, alerts, incidents, events, pc, alertObj, decision, resp,
                use_fake_blockchain, waiter, efir, generation, alert_data>>

\* ------------------------------------------------------------- helpers
Range(s) == {s[i] : i \in 1..Len(s)}

\* every order in which a result set may be returned (no ORDER BY)
Orderings(S) ==
  {s \in [1..Cardinality(S) -> S] : \A i, j \in 1..Cardinality(S) : i # j => s[i] # s[j]}

\* AlertStatus as declared, in declaration order
AlertStatus == <<"received", "processed", "escalated">>

\* IncidentStatus as declared, in declaration order
IncidentStatus == <<"received", "acknowledged", "dispatched", "resolved", "closed">>

\* the row of table alerts with this primary key
AlertRow(rows, id) == CHOOSE a \in rows : a.alert_id = id

\* the row of table incidents with this primary key
IncidentRow(rows, id) == CHOOSE i \in rows : i.incident_id = id

\* Alert(...) as constructed by create_sos_alert and completed by the column
\* defaults on INSERT: created_at is the insertion time, incident_id is None
NewAlert(id, lat, lng, t) ==
  [alert_id |-> id, lat |-> lat, lng |-> lng, status |-> "received",
   created_at |-> t, incident_id |-> NoIncident]

\* the session's `alert` before the request has built one
NoAlert == NewAlert(0, NoCoord, NoCoord, 0)

\* Incident(...) as constructed by create_sos_alert, with the column
\* defaults; updated_at is the time of the INSERT
NewIncident(iid, ids) ==
  [incident_id |-> iid, alerts |-> ids, priority |-> Len(ids),
   assigned_unit |-> "none", efir_pointer |-> "none", efir_hash |-> "none",
   blockchain_tx_id |-> "none", status |-> "received", updated_at |-> now]

\* str(uuid.uuid4()): a fresh identifier per creating request
NewIncidentId(r) == r

\* Python truthiness of an Optional[float]: None and 0.0 are both false
Truthy(x) == x # NoCoord /\ x # 0

\* ClusteringService.calculate_distance, squared, on the kilometre grid
calculate_distance_sq(lat1, lng1, lat2, lng2) ==
  (lat2 - lat1) * (lat2 - lat1) + (lng2 - lng1) * (lng2 - lng1)

\* a SELECT without the two `isnot(None)` conditions
ClusterQueryAnyCoord(rows, t) ==
  {a \in rows : /\ a.created_at >= t - WindowHours
                /\ a.incident_id = NoIncident}

\* a SELECT without the filter on incident_id
ClusterQueryAssigned(rows, t) ==
  {a \in rows : /\ a.created_at >= t - WindowHours
                /\ a.lat # NoCoord
                /\ a.lng # NoCoord}

\* the SELECT of should_create_incident: recent, unassigned, with coordinates
ClusterQuery(rows, t) ==
  {a \in rows : /\ a.created_at >= t - WindowHours
                /\ a.incident_id = NoIncident
                /\ a.lat # NoCoord
                /\ a.lng # NoCoord}

\* a scan whose nearness test is strict: distance < radius
RECURSIVE NearbyScanStrict(_, _)
NearbyScanStrict(alert, scan) ==
  IF scan = <<>> THEN <<>>
  ELSE LET existing == Head(scan)
           rest == NearbyScanStrict(alert, Tail(scan))
       IN IF existing.alert_id = alert.alert_id THEN rest
          ELSE IF calculate_distance_sq(alert.lat, alert.lng, existing.lat, existing.lng)
                    < RadiusKm * RadiusKm
               THEN <<existing.alert_id>> \o rest
               ELSE rest

\* the scan loop of should_create_incident over the rows in result order
RECURSIVE NearbyScan(_, _)
NearbyScan(alert, scan) ==
  IF scan = <<>> THEN <<>>
  ELSE LET existing == Head(scan)
           rest == NearbyScan(alert, Tail(scan))
       IN IF existing.alert_id = alert.alert_id THEN rest
          ELSE IF calculate_distance_sq(alert.lat, alert.lng, existing.lat, existing.lng)
                    <= RadiusKm * RadiusKm
               THEN <<existing.alert_id>> \o rest
               ELSE rest

\* ClusteringService.should_create_incident, given the query result
should_create_incident(alert, scan) ==
  IF ~Truthy(alert.lat) \/ ~Truthy(alert.lng)
  THEN [should |-> FALSE, ids |-> <<>>]
  ELSE LET nearby_alerts == NearbyScan(alert, scan)
           total_alerts == Len(nearby_alerts) + 1
           should_create == total_alerts >= Threshold
       IN [should |-> should_create,
           ids |-> IF should_create THEN Append(nearby_alerts, alert.alert_id)
                   ELSE nearby_alerts]

\* an INSERT that overwrites a stored row of the same key (session.merge)
InsertAlertMerge(rows, row) ==
  [ok |-> TRUE, rows |-> {a \in rows : a.alert_id # row.alert_id} \cup {row}]

\* db.add(alert); db.commit(): the INSERT under the primary key of alerts
InsertAlert(rows, row) ==
  IF \E a \in rows : a.alert_id = row.alert_id
  THEN [ok |-> FALSE, rows |-> rows]
  ELSE [ok |-> TRUE, rows |-> rows \cup {row}]

\* UPDATE alerts SET incident_id, status WHERE alert_id IN (related_alert_ids)
EscalateAlerts(rows, ids, iid) ==
  {IF a.alert_id \in Range(ids)
   THEN [a EXCEPT !.incident_id = iid, !.status = "escalated"]
   ELSE a : a \in rows}

\* a transaction whose flushed INSERT survives the failure of the UPDATE
IncidentTxNoRollback(ok, arows, irows, iid, ids) ==
  [alerts |-> IF ok THEN EscalateAlerts(arows, ids, iid) ELSE arows,
   incidents |-> irows \cup {NewIncident(iid, ids)}]

\* the transaction of lines 78-90: INSERT incident, UPDATE alerts, COMMIT;
\* when a statement or the commit fails the session rolls everything back
IncidentTx(ok, arows, irows, iid, ids) ==
  IF ok
  THEN [alerts |-> EscalateAlerts(arows, ids, iid),
        incidents |-> irows \cup {NewIncident(iid, ids)}]
  ELSE [alerts |-> arows, incidents |-> irows]

\* a handler that sets the attribute and never commits the session
FlushStatusUncommitted(rows, obj, st) == rows

\* the flush of `alert.status = PROCESSED`: an UPDATE of the one column, and
\* only when the value differs from the one the session loaded
FlushStatus(rows, obj, st) ==
  IF obj.status = st THEN rows
  ELSE {IF a.alert_id = obj.alert_id THEN [a EXCEPT !.status = st] ELSE a : a \in rows}

\* ------------------------------------------------- incident endpoints
\* incident identifiers a caller may name (stored or not)
IncidentIds == Reqs

\* IncidentUpdate bodies a caller may send; "none" / NoPriority is None
IncidentUpdates ==
  [status : Range(IncidentStatus) \cup {"none"},
   assigned_unit : {"none", "unit-7"},
   priority : {NoPriority, 1}]

\* update_dict: the fields of the body that are not None
update_dict(u) ==
  {f \in {"status", "assigned_unit", "priority"} :
     \/ f = "status" /\ u.status # "none"
     \/ f = "assigned_unit" /\ u.assigned_unit # "none"
     \/ f = "priority" /\ u.priority # NoPriority}

\* an UPDATE that writes all three columns, the body's None included
UpdateIncidentRowReplace(rows, iid, u) ==
  {IF i.incident_id = iid
   THEN [i EXCEPT !.status = IF u.status # "none" THEN u.status ELSE @,
                  !.assigned_unit = u.assigned_unit,
                  !.priority = IF u.priority # NoPriority THEN u.priority ELSE @,
                  !.updated_at = now]
   ELSE i : i \in rows}

\* UPDATE incidents SET <update_dict> WHERE incident_id = iid; updated_at,
\* which the statement does not set, takes its onupdate value
UpdateIncidentRow(rows, iid, u) ==
  {IF i.incident_id = iid
   THEN [i EXCEPT !.status = IF "status" \in update_dict(u) THEN u.status ELSE @,
                  !.assigned_unit = IF "assigned_unit" \in update_dict(u)
                                    THEN u.assigned_unit ELSE @,
                  !.priority = IF "priority" \in update_dict(u) THEN u.priority ELSE @,
                  !.updated_at = now]
   ELSE i : i \in rows}

\* what blockchain_service.anchor_evidence may return: a transaction
\* identifier, or None when the gateway call raised
AnchorResults == {"tx-1", "none"}

\* evidence_hash[:16] takes this many characters
FakeTxHashChars == 16

\* s[:n] of a Python string: the first n characters, all of s when shorter
Prefix(s, n) == SubSeq(s, 1, IF Len(s) < n THEN Len(s) ELSE n)

\* a fake identifier made with the whole hash
anchor_evidence_unsliced(fake, evidence_hash, result) ==
  IF fake
  THEN [tx_id |-> "fake_tx_" \o evidence_hash, gateway |-> "not_called", posts |-> 0]
  ELSE [tx_id |-> result,
        gateway |-> IF result = "none" THEN "unavailable" ELSE "answered",
        posts |-> 1]

\* BlockchainService.anchor_evidence: the fake identifier without any call,
\* else one POST to the gateway; result is the tx_id of its answer or None
\* when the POST raised, and the except clause returns that None
anchor_evidence(fake, evidence_hash, result) ==
  IF fake
  THEN [tx_id |-> "fake_tx_" \o Prefix(evidence_hash, FakeTxHashChars),
        gateway |-> "not_called", posts |-> 0]
  ELSE [tx_id |-> result,
        gateway |-> IF result = "none" THEN "unavailable" ELSE "answered",
        posts |-> 1]

\* generate_efir_pdf, lines 36-42: the incident table
IncidentTable(incident) ==
  [incident_id |-> incident.incident_id,
   status |-> incident.status,
   priority |-> incident.priority,
   assigned_unit |-> IF incident.assigned_unit = "none" THEN "Not Assigned"
                     ELSE incident.assigned_unit]

\* generate_efir_pdf, lines 65-74: the table of one alert.  The location is
\* printed when `alert.lat and alert.lng` is true and is 'N/A' (the empty
\* tuple here) otherwise; incident_id is not printed
AlertTable(alert) ==
  [alert_id |-> alert.alert_id,
   location |-> IF Truthy(alert.lat) /\ Truthy(alert.lng)
                THEN <<alert.lat, alert.lng>> ELSE <<>>,
   status |-> alert.status,
   created |-> alert.created_at]

\* generate_efir_pdf: the incident table, one table per alert in the order
\* given, and the footer with the time of generation
generate_efir_pdf(incident, members, generated) ==
  [incident |-> IncidentTable(incident),
   alerts |-> [k \in 1..Len(members) |-> AlertTable(members[k])],
   generated |-> generated]

\* hashlib.sha256(pdf_data).hexdigest(): different documents have different
\* digests
sha256(pdf_data) == <<"sha256", pdf_data>>

\* the incidents, member lists and generation times the compositions are
\* drawn from
SampleIncidents ==
  {[NewIncident(1, <<1>>) EXCEPT !.assigned_unit = unit] : unit \in {"none", "unit-7"}}

SampleMembers ==
  {<<[NewAlert(1, lat, lng, 0) EXCEPT !.status = st, !.incident_id = iid]>> :
     lat \in {NoCoord, 0, 1}, lng \in {1, 2}, st \in {"processed", "escalated"},
     iid \in {NoIncident, 1}}

SampleTimes == {0, 1}

\* UPDATE incidents SET efir_pointer, efir_hash, blockchain_tx_id WHERE ...
SetEfir(rows, iid, pointer, hash, tx) ==
  {IF i.incident_id = iid
   THEN [i EXCEPT !.efir_pointer = pointer, !.efir_hash = hash, !.blockchain_tx_id = tx,
                  !.updated_at = now]
   ELSE i : i \in rows}

\* ------------------------------------------------------ blockchain bridge
\* transaction identifiers: str(uuid.uuid4()), numbered in order of creation
TxIds == 1..NTx

\* the string made of n times the character c
Rep(c, n) == [i \in 1..n |-> c]

LowerHexDigits ==
  {"0", "1", "2", "3", "4", "5", "6", "7", "8", "9", "a", "b", "c", "d", "e", "f"}

\* the digits int(v, 16) accepts
HexDigits == LowerHexDigits \cup {"A", "B", "C", "D", "E", "F"}

\* valid_ops of validate_operation
valid_ops == {"issue_did", "record_incident", "anchor_evidence", "append_audit"}

\* operations a caller may send
OpInputs == valid_ops \cup {"delete_record"}

\* payload hashes a caller may send: lowercase hex, uppercase hex, with a
\* 0x prefix, with a sign, not hex, one character short, empty
HashInputs ==
  { Rep("a", HashLen), Rep("A", HashLen), <<"0", "x">> \o Rep("a", HashLen - 2),
    <<"+">> \o Rep("1", HashLen - 1), Rep("g", HashLen), Rep("a", HashLen - 1), <<>> }

\* a TransactionRequest before validation (metadata left out)
Requests == [op : OpInputs, payload_hash : HashInputs]

\* the requests sent while the life of a transaction is followed: one that
\* passes validation and one that does not
SampleRequests ==
  { [op |-> "issue_did", payload_hash |-> Rep("a", HashLen)],
    [op |-> "delete_record", payload_hash |-> Rep("a", HashLen)] }

RECURSIVE StripLeft(_)
StripLeft(v) == IF v # <<>> /\ Head(v) = " " THEN StripLeft(Tail(v)) ELSE v

RECURSIVE StripRight(_)
StripRight(v) ==
  IF v # <<>> /\ v[Len(v)] = " " THEN StripRight(SubSeq(v, 1, Len(v) - 1)) ELSE v

\* the digit part of an integer literal: digits, single underscores between them
DigitsOk(w) ==
  /\ w # <<>>
  /\ \A i \in 1..Len(w) : w[i] \in HexDigits \cup {"_"}
  /\ w[1] # "_" /\ w[Len(w)] # "_"
  /\ \A i \in 1..(Len(w) - 1) : ~(w[i] = "_" /\ w[i + 1] = "_")

\* int(v, 16) does not raise ValueError: surrounding whitespace, one sign,
\* an optional 0x / 0X prefix (and one underscore after it), then the digits
PyIntBase16Ok(v) ==
  LET t == StripRight(StripLeft(v))
      u == IF t # <<>> /\ Head(t) \in {"+", "-"} THEN Tail(t) ELSE t
      w == IF Len(u) >= 2 /\ u[1] = "0" /\ u[2] \in {"x", "X"}
           THEN LET x == SubSeq(u, 3, Len(u))
                IN IF x # <<>> /\ Head(x) = "_" THEN Tail(x) ELSE x
           ELSE u
  IN DigitsOk(w)

\* TransactionRequest.validate_operation
validate_operation(v) == v \in valid_ops

\* TransactionRequest.validate_payload_hash
validate_payload_hash(v) ==
  /\ ~(v = <<>> \/ Len(v) # HashLen)
  /\ PyIntBase16Ok(v)

\* the request passes the pydantic model
ValidRequest(req) == validate_operation(req.op) /\ validate_payload_hash(req.payload_hash)

\* BlockchainTxRecord as built by submit_transaction; raw_response is
\* reduced to its key block_no, absent at first
NewTxRecord(tx_id, op, t) ==
  [tx_id |-> tx_id, op_type |-> op, submitted_at |-> t,
   confirmed_at |-> NoTime, block_no |-> NoBlock]

\* get_tx_record of an identifier that is not stored
NoTxRecord == NewTxRecord(0, "none", NoTime)

\* store_tx_record: INSERT INTO blockchain_tx
store_tx_record(table, tx_record) == table \cup {tx_record}

\* update_tx_confirmed: UPDATE blockchain_tx SET confirmed_at, raw_response
update_tx_confirmed(table, tx_id, confirmed_at, block_no) ==
  {IF t.tx_id = tx_id
   THEN [t EXCEPT !.confirmed_at = confirmed_at, !.block_no = block_no]
   ELSE t : t \in table}

\* get_tx_record: SELECT * FROM blockchain_tx WHERE tx_id = $1
get_tx_record(table, tx_id) ==
  IF \E t \in table : t.tx_id = tx_id
  THEN CHOOSE t \in table : t.tx_id = tx_id
  ELSE NoTxRecord

\* the "status" of get_transaction_status and list_transactions
tx_status(record) == IF record.confirmed_at # NoTime THEN "confirmed" ELSE "pending"

\* a monitor query that selects every row old enough, confirmed or not
UnconfirmedQueryAll(table, t) ==
  {r \in table : r.submitted_at < t - ConfirmAfter}

\* the monitor's SELECT: unconfirmed rows submitted more than 2 seconds ago
UnconfirmedQuery(table, t) ==
  {r \in table : r.confirmed_at = NoTime /\ r.submitted_at < t - ConfirmAfter}

\* LIMIT n without ORDER BY: any n of the rows (all of them if fewer)
Limit(S, n) ==
  {T \in SUBSET S : Cardinality(T) = IF Cardinality(S) < n THEN Cardinality(S) ELSE n}

\* hash(tx_id): some integer, the same for the same string within a process
PyHash(tx_id) == 1000003 * tx_id

\* the mock block number of confirm_transaction
mock_block_no(tx_id) == PyHash(tx_id) % BlockModulus

\* confirmation_event of confirm_transaction
ConfirmationEvent(tx_id, op_type, block_no, confirmed_at) ==
  [tx_id |-> tx_id, type |-> op_type, block_no |-> block_no, timestamp |-> confirmed_at]

NoEvent == ConfirmationEvent(0, "none", NoBlock, NoTime)

\* the monitor task between two rounds of its loop
MonitorIdle == [pc |-> "idle", batch |-> <<>>, event |-> NoEvent]

\* a caller of wait_for_confirmation between two calls: the transaction it
\* waits for, the channel positions where its subscription began and where
\* its listener reads next, and what the call returned (NoEvent for None)
WaiterIdle == [pc |-> "idle", tx_id |-> 0, sub |-> 0, next |-> 0,
               outcome |-> "none", result |-> NoEvent]

NoRequest == [op |-> "none", payload_hash |-> <<>>]

\* no answer of the ledger gateway: no POST was made, or it raised
NoResponse == [code |-> 0, tx_id |-> "none"]

\* an IncidentUpdate with no field supplied
NoBody == [status |-> "none", assigned_unit |-> "none", priority |-> NoPriority]

\* the answer of a call and, for generate_efir, the three values it returns,
\* what became of its call of the ledger gateway, how many it made, and how
\* many objects it put into document storage; for update_incident, the body;
\* for anchor_evidence, the gateway's response
NoReply == [op |-> "none", code |-> 0, id |-> 0, status |-> "none", req |-> NoRequest,
            efir_pointer |-> "none", efir_hash |-> "none", blockchain_tx_id |-> "none",
            gateway |-> "not_called", posts |-> 0, puts |-> 0,
            body |-> NoBody, response |-> NoResponse]

\* RedisService.publish_event: the event reaches the channel, or the
\* exception of an unreachable Redis is printed and swallowed
publish_event(evs, reachable, ev) == IF reachable THEN evs \cup {ev} ELSE evs

\* ------------------------------------------------------------------ Init
\* a generate_efir request that has not been sent: no incident loaded, no
\* alerts read, nothing uploaded, nothing anchored
NoGeneration ==
  [pc |-> "start", code |-> 0, incident |-> <<>>, alerts |-> <<>>,
   efir_pointer |-> "none", efir_hash |-> "none", anchored_hash |-> "none",
   blockchain_tx_id |-> "none"]

\* SOSAlertCreate before the request has been sent
NoAlertData == [timestamp |-> NoTime]

NoDecision == [should |-> FALSE, ids |-> <<>>]
NoResp == [code |-> 0, status |-> "none", alert_id |-> 0, incident_id |-> NoIncident]

\* both services just started, tables empty, no request made
InitStores ==
  /\ now = 0
  /\ alerts = {}
  /\ incidents = {}
  /\ events = {}
  /\ pc = [r \in Reqs |-> "start"]
  /\ alertObj = [r \in Reqs |-> NoAlert]
  /\ decision = [r \in Reqs |-> NoDecision]
  /\ resp = [r \in Reqs |-> NoResp]
  /\ reply = NoReply
  /\ utcnow = 0
  /\ blockchain_tx = {}
  /\ fabric_calls = 0
  /\ monitor = MonitorIdle
  /\ channel = <<>>
  /\ waiter = WaiterIdle
  /\ efir = <<>>
  /\ generation = [g \in Gens |-> NoGeneration]
  /\ alert_data = [r \in Reqs |-> NoAlertData]

\* FABRIC_DEV_MODE defaults to "false", use_fake_blockchain to False
Init == InitStores /\ dev_mode = FALSE /\ use_fake_blockchain = FALSE

\* --------------------------------------------------------------- actions
\* time passes
Tick ==
  /\ now < MaxTime
  /\ now' = now + 1
  /\ UNCHANGED <<alerts, incidents, events, pc, alertObj, decision, resp>>
  /\ UNCHANGED opsVars

\* lines 25-39: build the Alert, INSERT, commit, refresh.  A second INSERT of
\* a stored alert_id raises IntegrityError, which nothing catches: HTTP 500.
\* Request slots are interchangeable, so they are used in index order; alert
\* identifiers are only compared for equality, so a request sends either an
\* identifier already stored or the least one not yet stored.  The body's
\* timestamp (when the alert was captured, `age` hours before it arrives) is
\* validated and then not used: Alert has no column for it and created_at
\* is the time of the INSERT.
save_alert(r, ages) ==
  /\ pc[r] = "start"
  /\ \A q \in Reqs : q < r => pc[q] # "start"
  /\ \E id \in AlertIds, place \in Places, age \in ages :
       /\ \A j \in AlertIds : j < id => \E a \in alerts : a.alert_id = j
       /\ alert_data' = [alert_data EXCEPT ![r] = [timestamp |-> now - age]]
       /\ LET row == NewAlert(id, place[1], place[2], now)
              ins == InsertAlert(alerts, row)
          IN /\ alerts' = ins.rows
             /\ IF ins.ok
                THEN /\ pc' = [pc EXCEPT ![r] = "saved"]
                     /\ alertObj' = [alertObj EXCEPT ![r] = row]
                     /\ resp' = resp
                ELSE /\ pc' = [pc EXCEPT ![r] = "error"]
                     /\ alertObj' = alertObj
                     /\ resp' = [resp EXCEPT ![r] = [NoResp EXCEPT !.code = 500,
                                                                    !.status = "IntegrityError",
                                                                    !.alert_id = id]]
  /\ UNCHANGED <<now, incidents, events, decision>>
  /\ UNCHANGED <<reply, use_fake_blockchain, waiter, efir, generation>>
  /\ UNCHANGED <<dev_mode, utcnow, blockchain_tx, fabric_calls, monitor, channel>>

\* an alert sent the moment it was captured
SaveAlert(r) == save_alert(r, {0})

\* lines 41-51: publish alert.created; reachable draws whether Redis takes it
publish_alert_created(r, reachable) ==
  /\ pc[r] = "saved"
  /\ \E ok \in reachable :
       events' = publish_event(events, ok,
                               [topic |-> "alert.created", by |-> r,
                                alert_id |-> alertObj[r].alert_id,
                                incident_id |-> NoIncident,
                                related_alerts |-> <<>>, priority |-> 0])
  /\ pc' = [pc EXCEPT ![r] = "published"]
  /\ UNCHANGED <<now, alerts, incidents, alertObj, decision, resp>>
  /\ UNCHANGED opsVars

\* the publishing step while Redis is reachable
PublishAlertCreated(r) == publish_alert_created(r, {TRUE})

\* a handler that runs the clustering query before it publishes alert.created
CheckClusteringEarly(r) ==
  /\ pc[r] = "saved"
  /\ \E scan \in Orderings(ClusterQuery(alerts, now)) :
       decision' = [decision EXCEPT ![r] = should_create_incident(alertObj[r], scan)]
  /\ pc' = [pc EXCEPT ![r] = "decided"]
  /\ UNCHANGED <<now, alerts, incidents, events, alertObj, resp>>
  /\ UNCHANGED opsVars

\* lines 65-66: the clustering query and the decision computed from it
CheckClustering(r) ==
  /\ pc[r] = "published"
  /\ \E scan \in Orderings(ClusterQuery(alerts, now)) :
       decision' = [decision EXCEPT ![r] = should_create_incident(alertObj[r], scan)]
  /\ pc' = [pc EXCEPT ![r] = "decided"]
  /\ UNCHANGED <<now, alerts, incidents, events, alertObj, resp>>
  /\ UNCHANGED opsVars

\* lines 68-90: create the incident and escalate its alerts in one transaction
CreateIncident(r) ==
  /\ pc[r] = "decided"
  /\ decision[r].should
  /\ \E ok \in BOOLEAN :
       LET tx == IncidentTx(ok, alerts, incidents, NewIncidentId(r), decision[r].ids)
       IN /\ alerts' = tx.alerts
          /\ incidents' = tx.incidents
          /\ IF ok
             THEN /\ pc' = [pc EXCEPT ![r] = "committed"]
                  /\ resp' = resp
             ELSE /\ pc' = [pc EXCEPT ![r] = "error"]
                  /\ resp' = [resp EXCEPT ![r] = [NoResp EXCEPT !.code = 500,
                                                                 !.status = "StorageError",
                                                                 !.alert_id = alertObj[r].alert_id]]
          /\ alertObj' = [alertObj EXCEPT ![r] = IF ok THEN @ ELSE NoAlert]
          /\ decision' = [decision EXCEPT ![r] = IF ok THEN @ ELSE NoDecision]
  /\ UNCHANGED <<now, events>>
  /\ UNCHANGED opsVars

\* lines 91-102: refresh the incident, publish incident.created, refresh
\* alert; reachable draws whether Redis takes the event
publish_incident_created(r, reachable) ==
  /\ pc[r] = "committed"
  /\ LET incident == IncidentRow(incidents, NewIncidentId(r))
     IN \E ok \in reachable :
          events' = publish_event(events, ok,
                                  [topic |-> "incident.created", by |-> r,
                                   alert_id |-> alertObj[r].alert_id,
                                   incident_id |-> incident.incident_id,
                                   related_alerts |-> incident.alerts,
                                   priority |-> incident.priority])
  /\ alertObj' = [alertObj EXCEPT ![r] = AlertRow(alerts, alertObj[r].alert_id)]
  /\ pc' = [pc EXCEPT ![r] = "refreshed"]
  /\ UNCHANGED <<now, alerts, incidents, decision, resp>>
  /\ UNCHANGED opsVars

\* the publishing step while Redis is reachable
PublishIncidentCreated(r) == publish_incident_created(r, {TRUE})

\* lines 104-119: set status processed, commit, answer; the handler returns
\* and its session and locals are gone
MarkProcessed(r) ==
  /\ \/ pc[r] = "decided" /\ ~decision[r].should
     \/ pc[r] = "refreshed"
  /\ alerts' = FlushStatus(alerts, alertObj[r], "processed")
  /\ resp' = [resp EXCEPT ![r] = [code |-> 200, status |-> "processed",
                                  alert_id |-> alertObj[r].alert_id,
                                  incident_id |-> alertObj[r].incident_id]]
  /\ alertObj' = [alertObj EXCEPT ![r] = NoAlert]
  /\ decision' = [decision EXCEPT ![r] = NoDecision]
  /\ pc' = [pc EXCEPT ![r] = "done"]
  /\ UNCHANGED <<now, incidents, events>>
  /\ UNCHANGED opsVars

Next ==
  \/ \E r \in Reqs : SaveAlert(r)
  \/ \E r \in Reqs : PublishAlertCreated(r)
  \/ \E r \in Reqs : CheckClustering(r)
  \/ \E r \in Reqs : CreateIncident(r)
  \/ \E r \in Reqs : PublishIncidentCreated(r)
  \/ \E r \in Reqs : MarkProcessed(r)

\* concurrent ingestion: a burst of requests that interleave at every await
Spec == Init /\ [][Next]_vars

\* a request that has started is run by the event loop until it returns
RequestStep(r) ==
  \/ PublishAlertCreated(r)
  \/ CheckClustering(r)
  \/ CreateIncident(r)
  \/ PublishIncidentCreated(r)
  \/ MarkProcessed(r)

IngestionFairness == \A r \in Reqs : WF_vars(RequestStep(r))

\* concurrent ingestion in which every awaited call returns
SpecFair == Spec /\ IngestionFairness

\* no request is between its first and its last statement
Quiescent == \A r \in Reqs : pc[r] \in {"start", "done", "error"}

\* a request is accepted only when the previous one has been answered
SeqSaveAlert(r) == Quiescent /\ SaveAlert(r)

NextSeq ==
  \/ Tick
  \/ \E r \in Reqs : SeqSaveAlert(r)
  \/ \E r \in Reqs : PublishAlertCreated(r)
  \/ \E r \in Reqs : CheckClustering(r)
  \/ \E r \in Reqs : CreateIncident(r)
  \/ \E r \in Reqs : PublishIncidentCreated(r)
  \/ \E r \in Reqs : MarkProcessed(r)

\* ingestion one request after another, while time passes
SpecSeq == Init /\ [][NextSeq]_vars

\* the service after an earlier burst: three alerts at one place were
\* ingested one after another, the third request created their incident and
\* then marked its own alert processed.  Their identifiers lie above those
\* the requests to come will use; Redis keeps no history of the events.
SettledIncidentId == NReq + 1

SettledIds == [k \in 1..Threshold |-> NReq + k]

SettledAlerts ==
  {[NewAlert(SettledIds[k], 1, 1, 0) EXCEPT
      !.incident_id = SettledIncidentId,
      !.status = IF k = Threshold THEN "processed" ELSE "escalated"] : k \in 1..Threshold}

SettledInit ==
  /\ now = 0
  /\ alerts = SettledAlerts
  /\ incidents = {NewIncident(SettledIncidentId, SettledIds)}
  /\ events = {}
  /\ pc = [r \in Reqs |-> "start"]
  /\ alertObj = [r \in Reqs |-> NoAlert]
  /\ decision = [r \in Reqs |-> NoDecision]
  /\ resp = [r \in Reqs |-> NoResp]
  /\ alert_data = [r \in Reqs |-> NoAlertData]
  /\ reply = NoReply
  /\ use_fake_blockchain = FALSE
  /\ waiter = WaiterIdle
  /\ efir = <<>>
  /\ generation = [g \in Gens |-> NoGeneration]
  /\ dev_mode = FALSE
  /\ utcnow = 0
  /\ blockchain_tx = {}
  /\ fabric_calls = 0
  /\ monitor = MonitorIdle
  /\ channel = <<>>

\* ingestion one request after another, of alerts that arrive after an
\* incident has been settled
SpecSettled == SettledInit /\ [][NextSeq]_vars

\* how long before its arrival an alert may have been captured: just now, or
\* longer ago than the clustering window
CaptureAges == {0, WindowHours + 1}

\* a request is accepted once the previous one is answered; its alert may
\* have been captured long before (an SMS delivered late)
LateSaveAlert(r) == Quiescent /\ save_alert(r, CaptureAges)

NextCapture ==
  \/ \E r \in Reqs : LateSaveAlert(r)
  \/ \E r \in Reqs : PublishAlertCreated(r)
  \/ \E r \in Reqs : CheckClustering(r)
  \/ \E r \in Reqs : CreateIncident(r)
  \/ \E r \in Reqs : PublishIncidentCreated(r)
  \/ \E r \in Reqs : MarkProcessed(r)

\* ingestion one request after another, of alerts that may arrive late
SpecCapture == Init /\ [][NextCapture]_vars

\* the publishing steps while Redis may be unreachable
LossyPublishAlertCreated(r) == publish_alert_created(r, BOOLEAN)

LossyPublishIncidentCreated(r) == publish_incident_created(r, BOOLEAN)

NextRedis ==
  \/ \E r \in Reqs : SeqSaveAlert(r)
  \/ \E r \in Reqs : LossyPublishAlertCreated(r)
  \/ \E r \in Reqs : CheckClustering(r)
  \/ \E r \in Reqs : CreateIncident(r)
  \/ \E r \in Reqs : LossyPublishIncidentCreated(r)
  \/ \E r \in Reqs : MarkProcessed(r)

\* ingestion one request after another, with a Redis that can be down
SpecRedis == Init /\ [][NextRedis]_vars

\* ------------------------------------------- incident endpoint actions
\* PUT /incidents/{incident_id}: 404 when the incident is not stored, else
\* the UPDATE of the supplied fields (none when the body is empty), commit,
\* refresh, and the incident as the answer
update_incident(bodies) ==
  /\ \E iid \in IncidentIds, u \in bodies :
       IF \E i \in incidents : i.incident_id = iid
       THEN /\ incidents' = IF update_dict(u) # {} THEN UpdateIncidentRow(incidents, iid, u)
                            ELSE incidents
            /\ reply' = [NoReply EXCEPT !.op = "update_incident", !.code = 200, !.id = iid,
                                        !.body = u,
                                        !.status = IncidentRow(incidents', iid).status]
       ELSE /\ incidents' = incidents
            /\ reply' = [NoReply EXCEPT !.op = "update_incident", !.code = 404, !.id = iid]
  /\ UNCHANGED <<now, alerts, events, pc, alertObj, decision, resp>>
  /\ UNCHANGED bridgeVars

\* PUT /incidents/{incident_id} with any body
UpdateIncident == update_incident(IncidentUpdates)

\* two bodies: the empty one and one with all three fields
SampleUpdates ==
  {[status |-> "none", assigned_unit |-> "none", priority |-> NoPriority],
   [status |-> "closed", assigned_unit |-> "unit-7", priority |-> 1]}

\* PUT /incidents/{incident_id} with one of the two bodies
UpdateIncidentSample == update_incident(SampleUpdates)

\* GET /incidents/{incident_id}: 404 when the incident is not stored, else
\* the incident as the answer
GetIncident ==
  /\ \E iid \in IncidentIds :
       reply' = IF \E i \in incidents : i.incident_id = iid
                THEN [NoReply EXCEPT !.op = "get_incident", !.code = 200, !.id = iid,
                                     !.status = IncidentRow(incidents, iid).status]
                ELSE [NoReply EXCEPT !.op = "get_incident", !.code = 404, !.id = iid]
  /\ UNCHANGED <<now, alerts, incidents, events, pc, alertObj, decision, resp>>
  /\ UNCHANGED bridgeVars

\* an evidence generation that does not look the incident up first: the
\* document is uploaded and anchored and the UPDATE matches what it matches
GenerateEfirNoLookup ==
  /\ \E iid \in IncidentIds, upload_ok \in BOOLEAN, result \in AnchorResults :
       IF upload_ok
       THEN LET anchored == anchor_evidence(use_fake_blockchain, "sha256", result)
            IN /\ incidents' = SetEfir(incidents, iid, "efir.pdf", "sha256", anchored.tx_id)
               /\ reply' = [NoReply EXCEPT !.op = "generate_efir", !.code = 200,
                                           !.id = iid, !.status = anchored.tx_id,
                                           !.efir_pointer = "efir.pdf",
                                           !.efir_hash = "sha256",
                                           !.blockchain_tx_id = anchored.tx_id,
                                           !.gateway = anchored.gateway,
                                           !.posts = anchored.posts,
                                           !.puts = 1]
       ELSE /\ incidents' = incidents
            /\ reply' = [NoReply EXCEPT !.op = "generate_efir", !.code = 500, !.id = iid,
                                        !.puts = 1]
  /\ UNCHANGED <<now, alerts, events, pc, alertObj, decision, resp>>
  /\ UNCHANGED bridgeVars

\* POST /incidents/{incident_id}/generate-efir: 404 when the incident is not
\* stored; when the PDF or its upload fails, HTTP 500 and no write; else the
\* UPDATE of the three e-FIR columns with whatever anchor_evidence returned
GenerateEfir ==
  /\ \E iid \in IncidentIds, upload_ok \in BOOLEAN, result \in AnchorResults :
       IF \E i \in incidents : i.incident_id = iid
       THEN IF upload_ok
            THEN LET anchored == anchor_evidence(use_fake_blockchain, "sha256", result)
                 IN /\ incidents' = SetEfir(incidents, iid, "efir.pdf", "sha256",
                                            anchored.tx_id)
                    /\ reply' = [NoReply EXCEPT !.op = "generate_efir", !.code = 200,
                                                !.id = iid, !.status = anchored.tx_id,
                                                !.efir_pointer = "efir.pdf",
                                                !.efir_hash = "sha256",
                                                !.blockchain_tx_id = anchored.tx_id,
                                                !.gateway = anchored.gateway,
                                                !.posts = anchored.posts,
                                                !.puts = 1]
            ELSE /\ incidents' = incidents
                 /\ reply' = [NoReply EXCEPT !.op = "generate_efir", !.code = 500, !.id = iid,
                                             !.puts = 1]
       ELSE /\ incidents' = incidents
            /\ reply' = [NoReply EXCEPT !.op = "generate_efir", !.code = 404, !.id = iid]
  /\ UNCHANGED <<now, alerts, events, pc, alertObj, decision, resp>>
  /\ UNCHANGED bridgeVars

NextIncidents ==
  \/ \E r \in Reqs : SeqSaveAlert(r)
  \/ \E r \in Reqs : PublishAlertCreated(r)
  \/ \E r \in Reqs : CheckClustering(r)
  \/ \E r \in Reqs : CreateIncident(r)
  \/ \E r \in Reqs : PublishIncidentCreated(r)
  \/ \E r \in Reqs : MarkProcessed(r)
  \/ UpdateIncident
  \/ GenerateEfir

\* ingestion one request after another, with operators working on the
\* incidents in between
SpecIncidents == Init /\ [][NextIncidents]_vars

\* the stores and the requests after three alerts at one place have been
\* ingested one after another within one instant: the third request created
\* the incident of all three and marked its own alert processed
OperatedIncidentId == NewIncidentId(NReq)

OperatedStores ==
  /\ now = 0
  /\ alerts = {[NewAlert(k, 1, 1, 0) EXCEPT
                  !.incident_id = OperatedIncidentId,
                  !.status = IF k = NReq THEN "processed" ELSE "escalated"] : k \in Reqs}
  /\ incidents = {NewIncident(OperatedIncidentId, [k \in Reqs |-> k])}
  /\ events = {[topic |-> "alert.created", by |-> k, alert_id |-> k,
                incident_id |-> NoIncident, priority |-> 0,
                related_alerts |-> <<>>] : k \in Reqs}
              \cup {[topic |-> "incident.created", by |-> NReq, alert_id |-> NReq,
                     incident_id |-> OperatedIncidentId, priority |-> NReq,
                     related_alerts |-> [k \in Reqs |-> k]]}
  /\ pc = [r \in Reqs |-> "done"]
  /\ alertObj = [r \in Reqs |-> NoAlert]
  /\ decision = [r \in Reqs |-> NoDecision]
  /\ resp = [r \in Reqs |->
               [NoResp EXCEPT !.code = 200, !.status = "processed", !.alert_id = r,
                              !.incident_id = IF r = NReq THEN OperatedIncidentId
                                              ELSE NoIncident]]
  /\ alert_data = [r \in Reqs |-> [timestamp |-> 0]]
  /\ reply = NoReply
  /\ waiter = WaiterIdle
  /\ efir = <<>>
  /\ generation = [g \in Gens |-> NoGeneration]
  /\ dev_mode = FALSE
  /\ utcnow = 0
  /\ blockchain_tx = {}
  /\ fabric_calls = 0
  /\ monitor = MonitorIdle
  /\ channel = <<>>

\* use_fake_blockchain defaults to False
OperatedInit == OperatedStores /\ use_fake_blockchain = FALSE

NextUpdate ==
  \/ Tick
  \/ UpdateIncident
  \/ GetIncident
  \/ GenerateEfir

\* operators working on a stored incident while time passes
SpecUpdate == OperatedInit /\ [][NextUpdate]_vars

\* generate_efir_pdf and the digest upload_pdf takes of its result, for one
\* incident, member list and instant
GenerateEfirPdf ==
  /\ Len(efir) < MaxCompositions
  /\ \E incident \in SampleIncidents, members \in SampleMembers, generated \in SampleTimes :
       LET pdf_data == generate_efir_pdf(incident, members, generated)
       IN efir' = Append(efir, [incident |-> incident, members |-> members,
                                generated |-> generated, pdf_data |-> pdf_data,
                                sha256_hash |-> sha256(pdf_data)])
  /\ UNCHANGED <<now, alerts, incidents, events, pc, alertObj, decision, resp, reply,
                 use_fake_blockchain, waiter, generation, alert_data>>
  /\ UNCHANGED <<dev_mode, utcnow, blockchain_tx, fabric_calls, monitor, channel>>

NextCompose == GenerateEfirPdf

\* the e-FIR service composing documents
SpecCompose == Init /\ [][NextCompose]_vars

\* generate_efir, lines 142-150: the SELECT of the incident's alerts, which
\* has no ORDER BY and returns them in any order, and the document composed
\* from the rows in that order
ComposeEfir ==
  /\ Len(efir) < MaxCompositions
  /\ \E incident \in incidents :
       \E members \in Orderings({a \in alerts : a.alert_id \in Range(incident.alerts)}) :
         LET pdf_data == generate_efir_pdf(incident, members, now)
         IN efir' = Append(efir, [incident |-> incident, members |-> members,
                                  generated |-> now, pdf_data |-> pdf_data,
                                  sha256_hash |-> sha256(pdf_data)])
  /\ UNCHANGED <<now, alerts, incidents, events, pc, alertObj, decision, resp, reply,
                 use_fake_blockchain, waiter, generation, alert_data>>
  /\ UNCHANGED <<dev_mode, utcnow, blockchain_tx, fabric_calls, monitor, channel>>

NextMembers ==
  \/ Tick
  \/ UpdateIncidentSample
  \/ ComposeEfir

\* evidence composed for a stored incident of three alerts
SpecMembers == OperatedInit /\ [][NextMembers]_vars

\* one hexadecimal digit
Digit(n) == SubSeq("0123456789abcdef", n + 1, n + 1)

RECURSIVE Digits(_)
\* the digits of a sequence of small numbers, in order
Digits(ns) == IF ns = <<>> THEN "" ELSE Digit(Head(ns)) \o Digits(Tail(ns))

\* hashlib.sha256(pdf_data).hexdigest() as a string: documents that differ
\* in the incident's priority, the alerts listed, their order or the time
\* of generation have digests that differ from the first digits on
hexdigest(pdf_data) ==
  Digit(pdf_data.generated) \o Digit(pdf_data.incident.priority)
    \o Digits([k \in 1..Len(pdf_data.alerts) |-> pdf_data.alerts[k].alert_id])

\* f"efir_{incident_id}_{uuid.uuid4().hex[:8]}.pdf": fresh for every request
object_name(iid, g) == "efir_" \o Digit(iid) \o "_" \o Digit(g) \o ".pdf"

\* what the POST of request g may come to: a transaction identifier the
\* gateway made for it, or None
AnchorResultsOf(g) == {"tx-" \o Digit(g), "none"}

\* generate_efir, lines 131-145: SELECT the incident, 404 when it is not
\* stored, then SELECT its alerts, returned in any order
GenSelect(g) ==
  /\ generation[g].pc = "start"
  /\ \E iid \in IncidentIds :
       IF \E i \in incidents : i.incident_id = iid
       THEN LET incident == IncidentRow(incidents, iid)
            IN \E rows \in Orderings({a \in alerts : a.alert_id \in Range(incident.alerts)}) :
                 generation' = [generation EXCEPT ![g] =
                                  [@ EXCEPT !.pc = "selected", !.incident = <<incident>>,
                                            !.alerts = rows]]
       ELSE generation' = [generation EXCEPT ![g] = [@ EXCEPT !.pc = "done", !.code = 404]]
  /\ UNCHANGED <<now, alerts, incidents, events, pc, alertObj, decision, resp, reply,
                 use_fake_blockchain, waiter, efir, alert_data>>
  /\ UNCHANGED <<dev_mode, utcnow, blockchain_tx, fabric_calls, monitor, channel>>

\* an upload that also writes the pointer and the hash to the incident
GenUploadStoring(g) ==
  /\ generation[g].pc = "selected"
  /\ LET incident == generation[g].incident[1]
         pdf_data == generate_efir_pdf(incident, generation[g].alerts, now)
         pointer == object_name(incident.incident_id, g)
     IN /\ generation' = [generation EXCEPT ![g] =
                            [@ EXCEPT !.pc = "uploaded", !.efir_pointer = pointer,
                                      !.efir_hash = hexdigest(pdf_data)]]
        /\ incidents' = {IF i.incident_id = incident.incident_id
                          THEN [i EXCEPT !.efir_pointer = pointer,
                                         !.efir_hash = hexdigest(pdf_data),
                                         !.updated_at = now]
                          ELSE i : i \in incidents}
  /\ UNCHANGED <<now, alerts, events, pc, alertObj, decision, resp, reply,
                 use_fake_blockchain, waiter, efir, alert_data>>
  /\ UNCHANGED <<dev_mode, utcnow, blockchain_tx, fabric_calls, monitor, channel>>

\* lines 148-153: compose the document from the loaded incident and alerts
\* and upload it; the pointer and the digest stay in the request, and a
\* failure is answered with HTTP 500
GenUpload(g) ==
  /\ generation[g].pc = "selected"
  /\ \E upload_ok \in BOOLEAN :
       LET incident == generation[g].incident[1]
           pdf_data == generate_efir_pdf(incident, generation[g].alerts, now)
       IN generation' = [generation EXCEPT ![g] =
                           IF upload_ok
                           THEN [@ EXCEPT !.pc = "uploaded",
                                          !.efir_pointer = object_name(incident.incident_id, g),
                                          !.efir_hash = hexdigest(pdf_data)]
                           ELSE [@ EXCEPT !.pc = "done", !.code = 500]]
  /\ UNCHANGED <<now, alerts, incidents, events, pc, alertObj, decision, resp, reply,
                 use_fake_blockchain, waiter, efir, alert_data>>
  /\ UNCHANGED <<dev_mode, utcnow, blockchain_tx, fabric_calls, monitor, channel>>

\* line 156: anchor_evidence(efir_hash, incident_id)
GenAnchor(g) ==
  /\ generation[g].pc = "uploaded"
  /\ \E result \in AnchorResultsOf(g) :
       LET anchored == anchor_evidence(use_fake_blockchain, generation[g].efir_hash, result)
       IN generation' = [generation EXCEPT ![g] =
                           [@ EXCEPT !.pc = "anchored",
                                     !.anchored_hash = generation[g].efir_hash,
                                     !.blockchain_tx_id = anchored.tx_id]]
  /\ UNCHANGED <<now, alerts, incidents, events, pc, alertObj, decision, resp, reply,
                 use_fake_blockchain, waiter, efir, alert_data>>
  /\ UNCHANGED <<dev_mode, utcnow, blockchain_tx, fabric_calls, monitor, channel>>

\* lines 158-175: the one UPDATE of the three e-FIR columns, the commit and
\* the answer
GenStore(g) ==
  /\ generation[g].pc = "anchored"
  /\ incidents' = SetEfir(incidents, generation[g].incident[1].incident_id,
                          generation[g].efir_pointer, generation[g].efir_hash,
                          generation[g].blockchain_tx_id)
  /\ generation' = [generation EXCEPT ![g] = [@ EXCEPT !.pc = "done", !.code = 200]]
  /\ UNCHANGED <<now, alerts, events, pc, alertObj, decision, resp, reply,
                 use_fake_blockchain, waiter, efir, alert_data>>
  /\ UNCHANGED <<dev_mode, utcnow, blockchain_tx, fabric_calls, monitor, channel>>

\* a stored incident and the alerts service in either mode
GenerationInit == OperatedStores /\ use_fake_blockchain \in BOOLEAN

NextGeneration ==
  \/ Tick
  \/ \E g \in Gens : GenSelect(g)
  \/ \E g \in Gens : GenUpload(g)
  \/ \E g \in Gens : GenAnchor(g)
  \/ \E g \in Gens : GenStore(g)

\* evidence-generation requests for stored incidents, interleaving at every
\* await
SpecGeneration == GenerationInit /\ [][NextGeneration]_vars

\* the alerts service deployed with or without USE_FAKE_BLOCKCHAIN
EvidenceInit == InitStores /\ dev_mode = FALSE /\ use_fake_blockchain \in BOOLEAN

\* evidence hashes anchor_evidence is called with: the test's, hexadecimal
\* digests with one of two heads of FakeTxHashChars digits, and shorter ones
HashHeads == {"0123456789abcdef", "0123456789abcdee", "fedcba9876543210", "e3b0c44298fc1c14"}

HashTails == {"", "0", "9afbf4c8996fb924", "9afbf4c8996fb92427ae41e4649b934ca495991b7852b855"}

SampleHashes ==
  {"", "0123456789abcde", "test_hash"} \cup {h \o t : h \in HashHeads, t \in HashTails}

\* answers of the gateway to the POST: success with a tx_id, success without
\* one, and the error answers, whose body has a detail and no tx_id
GatewayResponses ==
  {[code |-> 200, tx_id |-> t] : t \in {"tx-1", "tx-2", "none"}}
    \cup {[code |-> c, tx_id |-> "none"] : c \in {404, 500}}

\* lines 24-28: raise_for_status() and response.json().get("tx_id"); None
\* from the except clause when the POST or raise_for_status() raised
post_result(response) == IF response.code = 200 THEN response.tx_id ELSE "none"

\* blockchain_service.anchor_evidence(evidence_hash, incident_id), called
\* with the gateway answering, or not answering, the POST it may make
AnchorEvidence ==
  /\ \E evidence_hash \in SampleHashes, response \in GatewayResponses \cup {NoResponse} :
       LET anchored == anchor_evidence(use_fake_blockchain, evidence_hash,
                                       post_result(response))
       IN reply' = [NoReply EXCEPT !.op = "anchor_evidence",
                                   !.efir_hash = evidence_hash,
                                   !.blockchain_tx_id = anchored.tx_id,
                                   !.gateway = anchored.gateway,
                                   !.posts = anchored.posts,
                                   !.response = IF anchored.posts = 0 THEN NoResponse
                                                ELSE response]
  /\ UNCHANGED <<now, alerts, incidents, events, pc, alertObj, decision, resp>>
  /\ UNCHANGED bridgeVars

NextAnchor == AnchorEvidence

\* the evidence anchoring service called in either mode
SpecAnchor == EvidenceInit /\ [][NextAnchor]_vars


NextEvidence ==
  \/ \E r \in Reqs : SeqSaveAlert(r)
  \/ \E r \in Reqs : PublishAlertCreated(r)
  \/ \E r \in Reqs : CheckClustering(r)
  \/ \E r \in Reqs : CreateIncident(r)
  \/ \E r \in Reqs : PublishIncidentCreated(r)
  \/ \E r \in Reqs : MarkProcessed(r)
  \/ GenerateEfir

\* ingestion one request after another, and evidence generated for the
\* incidents it creates
SpecEvidence == EvidenceInit /\ [][NextEvidence]_vars

\* ------------------------------------------------------- bridge actions
\* a second passes on the bridge's clock
LedgerTick ==
  /\ utcnow < MaxClock
  /\ utcnow' = utcnow + 1
  /\ UNCHANGED <<reply, dev_mode, blockchain_tx, fabric_calls, monitor, channel>>
  /\ UNCHANGED alertsVars

\* POST /transactions.  A body that fails the validators is answered 422 by
\* FastAPI before the handler runs.  Otherwise the handler calls Fabric (the
\* mock in dev mode, else the gateway, which may fail: HTTP 500) and stores
\* the record.  Submissions stop early enough for the bounded clock to reach
\* the age at which the monitor picks them up.
submit_transaction(reqs) ==
  /\ \E req \in reqs, gateway_ok \in (IF dev_mode THEN {TRUE} ELSE BOOLEAN) :
       IF ~ValidRequest(req)
       THEN /\ reply' = [op |-> "submit", code |-> 422, id |-> 0,
                         status |-> "validation_error", req |-> req]
            /\ UNCHANGED <<blockchain_tx, fabric_calls>>
       ELSE /\ fabric_calls < NTx
            /\ utcnow + ConfirmAfter < MaxClock
            /\ fabric_calls' = fabric_calls + 1
            /\ IF dev_mode \/ gateway_ok
               THEN LET tx_id == Cardinality(blockchain_tx) + 1
                    IN /\ blockchain_tx' =
                            store_tx_record(blockchain_tx, NewTxRecord(tx_id, req.op, utcnow))
                       /\ reply' = [op |-> "submit", code |-> 200, id |-> tx_id,
                                    status |-> "submitted", req |-> req]
               ELSE /\ blockchain_tx' = blockchain_tx
                    /\ reply' = [op |-> "submit", code |-> 500, id |-> 0,
                                 status |-> "error", req |-> req]
  /\ UNCHANGED <<dev_mode, utcnow, monitor, channel>>
  /\ UNCHANGED alertsVars

\* POST /transactions with any of the request bodies
SubmitAny == submit_transaction(Requests)

\* POST /transactions with one of the sample bodies
SubmitTransaction == submit_transaction(SampleRequests)

\* GET /transactions/{tx_id}
GetTransactionStatus ==
  /\ \E tx_id \in TxIds :
       LET record == get_tx_record(blockchain_tx, tx_id)
       IN reply' = IF record = NoTxRecord
                   THEN [NoReply EXCEPT !.op = "status", !.code = 404, !.id = tx_id]
                   ELSE [NoReply EXCEPT !.op = "status", !.code = 200, !.id = tx_id,
                                        !.status = tx_status(record)]
  /\ UNCHANGED <<dev_mode, utcnow, blockchain_tx, fabric_calls, monitor, channel>>
  /\ UNCHANGED alertsVars

\* a monitor whose test of FABRIC_DEV_MODE is inverted: it simulates
\* confirmations outside dev mode and only sleeps in dev mode
MonitorPollInverted ==
  /\ monitor.pc = "idle"
  /\ IF dev_mode
     THEN monitor' = [monitor EXCEPT !.pc = "sleeping"]
     ELSE \E rows \in Limit(UnconfirmedQuery(blockchain_tx, utcnow), BatchLimit) :
            \E batch \in Orderings(rows) :
              monitor' = [monitor EXCEPT !.pc = IF batch = <<>> THEN "sleeping" ELSE "confirming",
                                         !.batch = [k \in 1..Len(batch) |->
                                                      [tx_id |-> batch[k].tx_id,
                                                       op_type |-> batch[k].op_type]]]
  /\ UNCHANGED <<reply, dev_mode, utcnow, blockchain_tx, fabric_calls, channel>>
  /\ UNCHANGED alertsVars

\* monitor, top of the loop: outside dev mode it only sleeps; in dev mode it
\* fetches the batch of unconfirmed transactions
MonitorPoll ==
  /\ monitor.pc = "idle"
  /\ IF ~dev_mode
     THEN monitor' = [monitor EXCEPT !.pc = "sleeping"]
     ELSE \E rows \in Limit(UnconfirmedQuery(blockchain_tx, utcnow), BatchLimit) :
            \E batch \in Orderings(rows) :
              monitor' = [monitor EXCEPT !.pc = IF batch = <<>> THEN "sleeping" ELSE "confirming",
                                         !.batch = [k \in 1..Len(batch) |->
                                                      [tx_id |-> batch[k].tx_id,
                                                       op_type |-> batch[k].op_type]]]
  /\ UNCHANGED <<reply, dev_mode, utcnow, blockchain_tx, fabric_calls, channel>>
  /\ UNCHANGED alertsVars

\* a confirm_transaction that builds the event without the UPDATE
MonitorConfirmUnrecorded ==
  /\ monitor.pc = "confirming"
  /\ LET record == Head(monitor.batch)
         confirmed_at == utcnow
         block_no == mock_block_no(record.tx_id)
     IN monitor' = [monitor EXCEPT !.pc = "publishing",
                                   !.event = ConfirmationEvent(record.tx_id, record.op_type,
                                                               block_no, confirmed_at)]
  /\ UNCHANGED <<reply, dev_mode, utcnow, blockchain_tx, fabric_calls, channel>>
  /\ UNCHANGED alertsVars

\* confirm_transaction, first half, for the next record of the batch:
\* update_tx_confirmed with the current time and the mock block number
MonitorConfirm ==
  /\ monitor.pc = "confirming"
  /\ LET record == Head(monitor.batch)
         confirmed_at == utcnow
         block_no == mock_block_no(record.tx_id)
     IN /\ blockchain_tx' = update_tx_confirmed(blockchain_tx, record.tx_id, confirmed_at, block_no)
        /\ monitor' = [monitor EXCEPT !.pc = "publishing",
                                      !.event = ConfirmationEvent(record.tx_id, record.op_type,
                                                                  block_no, confirmed_at)]
  /\ UNCHANGED <<reply, dev_mode, utcnow, fabric_calls, channel>>
  /\ UNCHANGED alertsVars

\* confirm_transaction, second half: redis_client.publish; when it raises the
\* exception is logged and the loop goes on with the next record
MonitorPublish ==
  /\ monitor.pc = "publishing"
  /\ \E publish_ok \in BOOLEAN :
       channel' = IF publish_ok THEN Append(channel, monitor.event) ELSE channel
  /\ monitor' = [pc |-> IF Tail(monitor.batch) = <<>> THEN "sleeping" ELSE "confirming",
                 batch |-> Tail(monitor.batch), event |-> NoEvent]
  /\ UNCHANGED <<reply, dev_mode, utcnow, blockchain_tx, fabric_calls>>
  /\ UNCHANGED alertsVars

\* asyncio.sleep at the end of a round is over
MonitorWake ==
  /\ monitor.pc = "sleeping"
  /\ monitor' = MonitorIdle
  /\ UNCHANGED <<reply, dev_mode, utcnow, blockchain_tx, fabric_calls, channel>>
  /\ UNCHANGED alertsVars

\* ------------------------------------------------- bridge client actions
\* wait_for_confirmation, lines 309-317: subscribe to the channel and start
\* the listener and the timer; only messages published from now on arrive
WaitForConfirmation ==
  /\ waiter.pc \in {"idle", "returned"}
  /\ \E tx_id \in TxIds :
       waiter' = [pc |-> "listening", tx_id |-> tx_id,
                  sub |-> Len(channel) + 1, next |-> Len(channel) + 1,
                  outcome |-> "none", result |-> NoEvent]
  /\ UNCHANGED <<reply, dev_mode, utcnow, blockchain_tx, fabric_calls, monitor, channel>>
  /\ UNCHANGED <<now, alerts, incidents, events, pc, alertObj, decision, resp,
                 use_fake_blockchain, efir, generation, alert_data>>

\* a listener that returns the first message it is handed
ListenForConfirmationAny ==
  /\ waiter.pc = "listening"
  /\ waiter.next <= Len(channel)
  /\ waiter' = [waiter EXCEPT !.pc = "returned", !.outcome = "event",
                              !.result = channel[waiter.next], !.next = @ + 1]
  /\ UNCHANGED <<reply, dev_mode, utcnow, blockchain_tx, fabric_calls, monitor, channel>>
  /\ UNCHANGED <<now, alerts, incidents, events, pc, alertObj, decision, resp,
                 use_fake_blockchain, efir, generation, alert_data>>

\* _listen_for_confirmation, lines 344-351: the next message of the
\* subscription; returned when its tx_id is the target, else skipped
ListenForConfirmation ==
  /\ waiter.pc = "listening"
  /\ waiter.next <= Len(channel)
  /\ LET event == channel[waiter.next]
     IN waiter' = IF event.tx_id = waiter.tx_id
                  THEN [waiter EXCEPT !.pc = "returned", !.outcome = "event",
                                      !.result = event, !.next = @ + 1]
                  ELSE [waiter EXCEPT !.next = @ + 1]
  /\ UNCHANGED <<reply, dev_mode, utcnow, blockchain_tx, fabric_calls, monitor, channel>>
  /\ UNCHANGED <<now, alerts, incidents, events, pc, alertObj, decision, resp,
                 use_fake_blockchain, efir, generation, alert_data>>

\* lines 316-336: asyncio.sleep(timeout) completes first; the listener is
\* cancelled and None is returned
WaitTimeout ==
  /\ waiter.pc = "listening"
  /\ waiter' = [waiter EXCEPT !.pc = "returned", !.outcome = "timeout",
                              !.result = NoEvent]
  /\ UNCHANGED <<reply, dev_mode, utcnow, blockchain_tx, fabric_calls, monitor, channel>>
  /\ UNCHANGED <<now, alerts, incidents, events, pc, alertObj, decision, resp,
                 use_fake_blockchain, efir, generation, alert_data>>

\* the bridge starts in either mode
LedgerInit == InitStores /\ dev_mode \in BOOLEAN /\ use_fake_blockchain = FALSE

NextLedger ==
  \/ LedgerTick
  \/ SubmitTransaction
  \/ GetTransactionStatus
  \/ MonitorPoll
  \/ MonitorConfirm
  \/ MonitorPublish
  \/ MonitorWake

\* the bridge: submissions, status queries and the monitor task
SpecLedger == LedgerInit /\ [][NextLedger]_vars

NextWait ==
  \/ LedgerTick
  \/ SubmitTransaction
  \/ MonitorPoll
  \/ MonitorConfirm
  \/ MonitorPublish
  \/ MonitorWake
  \/ WaitForConfirmation
  \/ ListenForConfirmation
  \/ WaitTimeout

\* the bridge and one caller that waits for confirmations
SpecWait == LedgerInit /\ [][NextWait]_vars

NextObserve ==
  \/ LedgerTick
  \/ SubmitTransaction
  \/ GetTransactionStatus
  \/ MonitorPoll
  \/ MonitorConfirm
  \/ MonitorPublish
  \/ MonitorWake
  \/ WaitForConfirmation
  \/ ListenForConfirmation
  \/ WaitTimeout

\* the bridge and one subscriber that also queries the status
SpecObserve == LedgerInit /\ [][NextObserve]_vars

\* the monitor task is never starved and time does not stop
LedgerFairness ==
  /\ WF_vars(LedgerTick)
  /\ WF_vars(MonitorPoll)
  /\ WF_vars(MonitorConfirm)
  /\ WF_vars(MonitorPublish)
  /\ WF_vars(MonitorWake)

SpecLedgerFair == LedgerInit /\ [][NextLedger]_vars /\ LedgerFairness

\* confirm_transaction called for a stored transaction by a caller other than
\* the monitor's loop, the way the unit test calls it: the whole function.
\* Such calls stop once the channel holds as many messages as transactions.
ConfirmTransactionCall ==
  /\ Len(channel) < NTx
  /\ \E record \in blockchain_tx, publish_ok \in BOOLEAN :
       LET confirmed_at == utcnow
           block_no == mock_block_no(record.tx_id)
       IN /\ blockchain_tx' = update_tx_confirmed(blockchain_tx, record.tx_id, confirmed_at, block_no)
          /\ channel' = IF publish_ok
                        THEN Append(channel, ConfirmationEvent(record.tx_id, record.op_type,
                                                               block_no, confirmed_at))
                        ELSE channel
          /\ reply' = [NoReply EXCEPT !.op = "confirm", !.id = record.tx_id]
  /\ UNCHANGED <<dev_mode, utcnow, fabric_calls, monitor>>
  /\ UNCHANGED alertsVars

NextConfirm ==
  \/ LedgerTick
  \/ SubmitTransaction
  \/ GetTransactionStatus
  \/ MonitorPoll
  \/ MonitorConfirm
  \/ MonitorPublish
  \/ MonitorWake
  \/ ConfirmTransactionCall

\* the bridge, with confirm_transaction also called directly
SpecConfirm == LedgerInit /\ [][NextConfirm]_vars

NextSubmit ==
  \/ SubmitAny
  \/ GetTransactionStatus

\* the two HTTP endpoints of the bridge, with every kind of request body
SpecSubmit == LedgerInit /\ [][NextSubmit]_vars

\* both services taking requests by identifier, stored or not
NextLookup ==
  \/ \E r \in Reqs : SeqSaveAlert(r)
  \/ \E r \in Reqs : PublishAlertCreated(r)
  \/ \E r \in Reqs : CheckClustering(r)
  \/ \E r \in Reqs : CreateIncident(r)
  \/ \E r \in Reqs : PublishIncidentCreated(r)
  \/ \E r \in Reqs : MarkProcessed(r)
  \/ GetIncident
  \/ UpdateIncidentSample
  \/ GenerateEfir
  \/ SubmitTransaction
  \/ GetTransactionStatus

SpecLookup == Init /\ [][NextLookup]_vars

\* ------------------------------------------------------- claim vocabulary
\* the identifiers of a set of alert rows
IdsOf(rows) == {a.alert_id : a \in rows}

\* position of a status in AlertStatus
AlertRank(st) == CHOOSE k \in 1..Len(AlertStatus) : AlertStatus[k] = st

\* both coordinates are present
HasCoords(a) == a.lat # NoCoord /\ a.lng # NoCoord

\* a is within the cluster radius of b
Near(a, b) ==
  /\ HasCoords(a) /\ HasCoords(b)
  /\ (a.lat - b.lat) * (a.lat - b.lat) + (a.lng - b.lng) * (a.lng - b.lng)
       <= RadiusKm * RadiusKm

\* all rows are within the radius of each other and inside the time window
OneCluster(rows) ==
  /\ \A a, b \in rows : Near(a, b)
  /\ \A a \in rows : now - a.created_at <= WindowHours

\* the alert identifier request r was sent with (0 before it has started)
SentId(r) == IF pc[r] \in {"done", "error"} THEN resp[r].alert_id ELSE alertObj[r].alert_id

\* request r has failed in the incident transaction
TxFailed(r) == resp[r].status = "StorageError"

\* C1: N >= threshold alerts that all qualify for one cluster, ingested by
\* concurrent requests, end in exactly one incident that holds all of them.
\* (Stated for alerts with non-zero coordinates and for runs in which no
\* request failed.)
C1_OneIncidentForCluster ==
  ( /\ \A r \in Reqs : pc[r] = "done"
    /\ Cardinality(alerts) >= Threshold
    /\ OneCluster(alerts)
    /\ \A a \in alerts : Truthy(a.lat) /\ Truthy(a.lng) )
  => /\ Cardinality(incidents) = 1
     /\ \A i \in incidents : Range(i.alerts) = IdsOf(alerts)

\* C2: no alert identifier is in the member lists of two different incidents.
C2_NoDoubleEscalation ==
  \A i, j \in incidents :
    i.incident_id # j.incident_id => Range(i.alerts) \cap Range(j.alerts) = {}

\* C3: every incident has members, and every member's incident_id names it.
C3_MembersReferBack ==
  \A i \in incidents :
    /\ i.alerts # <<>>
    /\ \A id \in Range(i.alerts) :
         \E a \in alerts : a.alert_id = id /\ a.incident_id = i.incident_id

\* C4: incident creation is all-or-nothing.  A step either leaves the
\* incidents and every alert's incident_id as they were, or adds one incident
\* together with the update of every one of its members; a failed creation
\* changes neither table; and no alert ever names an incident that is not stored.
C4_AllOrNothing ==
  [][ /\ \A a \in alerts' :
           a.incident_id # NoIncident
             => \E i \in incidents' : /\ i.incident_id = a.incident_id
                                      /\ a.alert_id \in Range(i.alerts)
      /\ \A r \in Reqs :
           (TxFailed(r)' /\ ~TxFailed(r)) => (alerts' = alerts /\ incidents' = incidents)
      /\ \/ /\ incidents' = incidents
            /\ \A a \in alerts : \A b \in alerts' :
                 b.alert_id = a.alert_id => b.incident_id = a.incident_id
         \/ \E i \in incidents' \ incidents :
              /\ incidents' = incidents \cup {i}
              /\ Range(i.alerts) \subseteq IdsOf(alerts')
              /\ \A b \in alerts' :
                   IF b.alert_id \in Range(i.alerts)
                   THEN b.incident_id = i.incident_id /\ b.status = "escalated"
                   ELSE b \in alerts ]_vars

\* C4 witness: one creation has failed while another incident is stored
C4_Witness ==
  /\ \E r \in Reqs : TxFailed(r) /\ pc[r] = "error"
  /\ incidents # {}

\* C5: an alert identifier is stored at most once, the stored lat, lng and
\* created_at stay those of the first request, and a request that carries a
\* stored identifier changes nothing in the table.
C5_OneRecordPerIdentifier ==
  [][ /\ \A a \in alerts :
           \E b \in alerts' :
             /\ b.alert_id = a.alert_id
             /\ b.lat = a.lat /\ b.lng = a.lng /\ b.created_at = a.created_at
             /\ \A c \in alerts' : c.alert_id = a.alert_id => c = b
      /\ \A r \in Reqs :
           ( /\ pc[r] = "start" /\ pc'[r] # "start"
             /\ SentId(r)' \in IdsOf(alerts) )
           => alerts' = alerts ]_vars

\* C5 witness: a duplicate was submitted while the first request for the
\* identifier was still running
C5_Witness ==
  \E r, q \in Reqs :
    /\ r # q
    /\ SentId(r) = SentId(q)
    /\ pc[r] = "error" /\ resp[r].status = "IntegrityError"
    /\ pc[q] \in {"saved", "published", "decided", "committed", "refreshed"}

\* C6: a request whose identifier is already stored is answered successfully
\* with the stored record and changes nothing.
C6_DuplicateIsNoOp ==
  [][ \A r \in Reqs :
        ( /\ pc[r] = "start" /\ pc'[r] # "start"
          /\ SentId(r)' \in IdsOf(alerts) )
        => /\ alerts' = alerts
           /\ resp'[r].code = 200
           /\ resp'[r].alert_id = SentId(r)'
           /\ resp'[r].incident_id = AlertRow(alerts, SentId(r)').incident_id
           /\ resp'[r].status = AlertRow(alerts, SentId(r)').status ]_vars

\* C7: three alerts ingested one after another: if they are within the
\* radius of each other and within the window there is exactly one incident,
\* with exactly these members, priority 3 and status received; if they are
\* pairwise farther apart than the radius there is no incident.
C7_ThresholdScenario ==
  ( /\ Quiescent
    /\ \A r \in Reqs : ~TxFailed(r)
    /\ Cardinality(alerts) = 3 )
  => /\ OneCluster(alerts)
          => \E i \in incidents :
               /\ incidents = {i}
               /\ Range(i.alerts) = IdsOf(alerts)
               /\ Len(i.alerts) = 3
               /\ i.priority = 3
               /\ i.status = "received"
     /\ ( \A a, b \in alerts : a # b => (HasCoords(a) /\ HasCoords(b) /\ ~Near(a, b)) )
          => incidents = {}

\* C8: after the ingestion that created an incident has completed, every
\* member of that incident is escalated and refers to it.
C8_MembersEscalated ==
  \A r \in Reqs : \A i \in incidents :
    (pc[r] = "done" /\ i.incident_id = NewIncidentId(r))
    => \A id \in Range(i.alerts) :
         \E a \in alerts : /\ a.alert_id = id
                           /\ a.status = "escalated"
                           /\ a.incident_id = i.incident_id

\* C9: an alert's status never moves backwards along
\* received -> processed -> escalated.
C9_StatusForwardOnly ==
  [][ \A a \in alerts : \A b \in alerts' :
        b.alert_id = a.alert_id => AlertRank(b.status) >= AlertRank(a.status) ]_vars

\* C10: the clustering decision is true exactly when the candidates within
\* the radius of the new alert, plus the new alert, reach the threshold; the
\* identifiers then returned are the near candidates and the new alert, each
\* once, and the new alert is not among its own neighbours.
C10_DecisionMatchesCount ==
  [][ \A r \in Reqs :
        (pc[r] = "published" /\ pc'[r] = "decided")
        => LET new == alertObj[r]
               near == {c \in ClusterQuery(alerts, now) :
                          c.alert_id # new.alert_id /\ Near(new, c)}
               d == decision'[r]
           IN /\ d.should <=> (Cardinality(near) + 1 >= Threshold)
              /\ d.should => /\ Range(d.ids) = IdsOf(near) \cup {new.alert_id}
                             /\ Len(d.ids) = Cardinality(near) + 1 ]_vars

\* the candidate c lies exactly on the cluster radius around the alert new
OnRadius(new, c) ==
  /\ HasCoords(new) /\ HasCoords(c)
  /\ calculate_distance_sq(new.lat, new.lng, c.lat, c.lng) = RadiusKm * RadiusKm

\* C11: the nearness test includes the boundary.  Whenever the scan of
\* should_create_incident runs for a new alert, every candidate of the query
\* (other than the alert itself) whose distance from the new alert is exactly
\* the radius is put on the list of nearby alerts, and it counts towards the
\* threshold: the decision is true when the candidates at distance <= radius
\* plus the new alert reach the threshold, also when it is only reached
\* thanks to candidates exactly on the radius.
C11_RadiusInclusive ==
  [][ \A r \in Reqs :
        ( /\ pc[r] = "published" /\ pc'[r] = "decided"
          /\ Truthy(alertObj[r].lat) /\ Truthy(alertObj[r].lng) )
        => LET new == alertObj[r]
               cands == {c \in ClusterQuery(alerts, now) : c.alert_id # new.alert_id}
               onRadius == {c \in cands : OnRadius(new, c)}
               inside == {c \in cands : Near(new, c) /\ ~OnRadius(new, c)}
           IN /\ IdsOf(onRadius) \subseteq Range(decision'[r].ids)
              /\ (Cardinality(onRadius) + Cardinality(inside) + 1 >= Threshold)
                   => decision'[r].should ]_vars

\* C11 witness: a decision to create an incident that was only reached by
\* counting a candidate exactly on the radius
C11_Witness ==
  \E r \in Reqs :
    /\ pc[r] = "decided" /\ decision[r].should
    /\ \E c \in alerts : /\ c.alert_id # alertObj[r].alert_id
                         /\ c.alert_id \in Range(decision[r].ids)
                         /\ OnRadius(alertObj[r], c)
    /\ Cardinality({c \in alerts : c.alert_id \in Range(decision[r].ids)
                                    /\ ~OnRadius(alertObj[r], c)}) < Threshold

\* C12: an alert without latitude or without longitude is never clustered.
\* The request that ingests it never decides for an incident and never
\* creates one, and in every reachable state the stored alert has no
\* incident_id and is in no incident's member list.
C12_NoCoordsNeverClustered ==
  /\ \A r \in Reqs :
        (pc[r] \in {"decided", "committed", "refreshed"} /\ ~HasCoords(alertObj[r]))
        => (pc[r] = "decided" /\ ~decision[r].should)
  /\ \A i \in incidents :
        \E a \in alerts : a.alert_id = SentId(i.incident_id) /\ HasCoords(a)
  /\ \A a \in alerts :
        ~HasCoords(a)
        => /\ a.incident_id = NoIncident
           /\ \A i \in incidents : a.alert_id \notin Range(i.alerts)

\* C12 witness: the ingestion of an alert without a coordinate has completed
\* while two other alerts were stored, and there is no incident
C12_Witness ==
  /\ \E r \in Reqs :
        /\ pc[r] = "done" /\ resp[r].code = 200
        /\ \E a \in alerts : a.alert_id = resp[r].alert_id /\ ~HasCoords(a)
  /\ Cardinality(alerts) = Threshold
  /\ incidents = {}

\* position of a status in IncidentStatus
IncidentRank(st) == CHOOSE k \in 1..Len(IncidentStatus) : IncidentStatus[k] = st

\* C13: an update request against a closed incident fails with Conflict
\* (HTTP 409) and leaves every field of the incident as it was.
C13_ClosedIsImmutable ==
  [][ \A i \in incidents :
        i.status = "closed"
        => /\ i \in incidents'
           /\ ( /\ reply' # reply
                /\ reply'.op \in {"update_incident", "generate_efir"}
                /\ reply'.id = i.incident_id )
              => reply'.code = 409 ]_vars

\* C14: the status of an incident only moves forward along received ->
\* acknowledged -> dispatched -> resolved -> closed (steps may be skipped):
\* no step moves it to an earlier status, and a closed incident stays closed.
C14_IncidentStatusForward ==
  [][ \A i \in incidents : \A j \in incidents' :
        j.incident_id = i.incident_id
        => /\ IncidentRank(j.status) >= IncidentRank(i.status)
           /\ i.status = "closed" => j.status = "closed" ]_vars

\* the transaction identifiers stored in a table
TxIdsOf(table) == {t.tx_id : t \in table}

\* how many messages on the channel carry this transaction identifier
Published(tx_id) == Cardinality({k \in 1..Len(channel) : channel[k].tx_id = tx_id})

\* C15: confirming a transaction that is already confirmed returns Conflict
\* (409) and leaves the recorded confirmation time and block reference as
\* the first confirmation wrote them.
C15_SecondConfirmIsConflict ==
  [][ \A t \in blockchain_tx :
        t.confirmed_at # NoTime
        => /\ \E u \in blockchain_tx' : /\ u.tx_id = t.tx_id
                                        /\ u.confirmed_at = t.confirmed_at
                                        /\ u.block_no = t.block_no
           /\ ( /\ <<reply, blockchain_tx, channel>>' # <<reply, blockchain_tx, channel>>
                /\ reply'.op = "confirm" /\ reply'.id = t.tx_id )
              => reply'.code = 409 ]_vars

\* C16: under the submission endpoint and the monitor no transaction record
\* is ever deleted, an identifier is stored once, and a confirmation
\* timestamp that is set is never replaced and never cleared.
C16_ConfirmedAtWriteOnce ==
  [][ /\ \A t \in blockchain_tx :
           \E u \in blockchain_tx' :
             /\ u.tx_id = t.tx_id
             /\ t.confirmed_at # NoTime => u.confirmed_at = t.confirmed_at
      /\ \A u, w \in blockchain_tx' : u.tx_id = w.tx_id => u = w ]_vars

\* C16 witness: two transactions were confirmed in different rounds of the
\* monitor, the second after the first had been confirmed
C16_Witness ==
  \E t, u \in blockchain_tx :
    /\ t.confirmed_at # NoTime /\ u.confirmed_at # NoTime
    /\ t.confirmed_at < u.confirmed_at

C18_PublishedExactlyOnce ==
  \A tx_id \in TxIds :
    /\ Published(tx_id) <= 1
    /\ ( /\ tx_status(get_tx_record(blockchain_tx, tx_id)) = "confirmed"
         /\ ~(monitor.pc = "publishing" /\ monitor.event.tx_id = tx_id) )
       => Published(tx_id) = 1

\* a 64-character lowercase hexadecimal string
IsSha256Hex(v) == Len(v) = 64 /\ \A k \in 1..Len(v) : v[k] \in LowerHexDigits

\* the four ledger operations
LedgerOps == {"issue_did", "record_incident", "anchor_evidence", "append_audit"}

\* C19: a submission is accepted only if its payload hash is 64 lowercase
\* hexadecimal characters and its operation is one of the four ledger
\* operations; any other request gets a validation error (422), the ledger
\* is not called and no record is stored.
C19_OnlyWellFormedAccepted ==
  [][ ( /\ <<reply, fabric_calls, blockchain_tx>>' # <<reply, fabric_calls, blockchain_tx>>
        /\ reply'.op = "submit"
        /\ ~(IsSha256Hex(reply'.req.payload_hash) /\ reply'.req.op \in LedgerOps) )
      => /\ reply'.code = 422
         /\ fabric_calls' = fabric_calls
         /\ blockchain_tx' = blockchain_tx ]_vars

\* the events of a topic published by request r
EventsBy(evs, topic, r) == {e \in evs : e.topic = topic /\ e.by = r}

\* C20: the steps of one ingestion happen in order.  alert.created is
\* published only after the alert is stored and before the clustering
\* snapshot is read; the snapshot is read only once the publishing step is
\* behind; incident.created is published only after clustering has completed
\* and the incident is committed.
C20_StepsInOrder ==
  [][ \A r \in Reqs :
        /\ EventsBy(events', "alert.created", r) # EventsBy(events, "alert.created", r)
           => /\ alertObj[r].alert_id \in IdsOf(alerts)
              /\ \A e \in EventsBy(events', "alert.created", r) :
                   e.alert_id = alertObj[r].alert_id
              /\ decision[r] = NoDecision /\ pc[r] = "saved"
        /\ (pc[r] # "decided" /\ pc'[r] = "decided")
           => /\ pc[r] = "published"
              /\ EventsBy(events, "incident.created", r) = {}
        /\ EventsBy(events', "incident.created", r) # EventsBy(events, "incident.created", r)
           => /\ pc[r] = "committed" /\ decision[r].should
              /\ \E i \in incidents : i.incident_id = NewIncidentId(r) ]_vars

\* C20 witness: a request has gone through all four steps
C20_Witness ==
  \E r \in Reqs :
    /\ pc[r] = "done"
    /\ EventsBy(events, "alert.created", r) # {}
    /\ EventsBy(events, "incident.created", r) # {}
    /\ \E a \in alerts : a.alert_id = resp[r].alert_id

\* request r has stored its alert and is past the alert.created step
PastAlertPublish(r) ==
  \/ pc[r] \in {"published", "decided", "committed", "refreshed", "done"}
  \/ pc[r] = "error" /\ TxFailed(r)

\* C21: every stored alert has alert.created published for it exactly once
\* (as soon as the request that stored it is past its publishing step),
\* whether or not an incident follows, and alert.created is never published
\* for an alert that is not stored.
C21_AlertCreatedExactlyOnce ==
  /\ \A r \in Reqs :
       PastAlertPublish(r)
       => Cardinality({e \in events : e.topic = "alert.created"
                                      /\ e.alert_id = SentId(r)}) = 1
  /\ \A e \in events : e.topic = "alert.created" => e.alert_id \in IdsOf(alerts)

\* C22: incident.created is published exactly once for every committed
\* incident (as soon as the request that created it is past its publishing
\* step), it carries the incident's identifier, members and priority, and it
\* is never published for an incident that is not stored.
C22_IncidentCreatedExactlyOnce ==
  /\ \A i \in incidents :
       (\A r \in Reqs : NewIncidentId(r) = i.incident_id => pc[r] # "committed")
       => Cardinality({e \in events : e.topic = "incident.created"
                                      /\ e.incident_id = i.incident_id}) = 1
  /\ \A e \in events :
       e.topic = "incident.created"
       => \E i \in incidents : /\ i.incident_id = e.incident_id
                                /\ i.alerts = e.related_alerts
                                /\ i.priority = e.priority

\* C23: a request that has saved its alert runs to completion whatever the
\* other requests do in between: it ends with the answer 200, its alert
\* stored and no longer in status received.  The only failures of a handler
\* are those of storage itself: the refused INSERT of a stored identifier
\* (before the alert is saved) and a failed incident transaction.
C23_NoFailureFromRaces ==
  /\ \A r \in Reqs :
       (pc[r] = "saved") ~> (pc[r] = "done" \/ (pc[r] = "error" /\ TxFailed(r)))
  /\ [](\A r \in Reqs :
         /\ pc[r] = "done"
            => /\ resp[r].code = 200
               /\ \E a \in alerts : /\ a.alert_id = resp[r].alert_id
                                     /\ a.status # "received"
         /\ pc[r] = "error" => resp[r].status \in {"IntegrityError", "StorageError"})

\* C23 witness: two requests raced into two incidents and every request
\* has still been answered 200
C23_Witness ==
  /\ Cardinality(incidents) >= 2
  /\ \A r \in Reqs : pc[r] = "done" /\ resp[r].code = 200

\* the stored incident the last generate_efir call was about
EfirRow == IncidentRow(incidents, reply.id)

\* C24: when evidence generation has reported success, the incident holds
\* a non-null evidence pointer, evidence hash and ledger transaction
\* reference, and they are the values of the response.
C24_SuccessMeansAnchored ==
  (reply.op = "generate_efir" /\ reply.code = 200)
  => /\ EfirRow.efir_pointer # "none" /\ EfirRow.efir_pointer = reply.efir_pointer
     /\ EfirRow.efir_hash # "none" /\ EfirRow.efir_hash = reply.efir_hash
     /\ EfirRow.blockchain_tx_id # "none"
     /\ EfirRow.blockchain_tx_id = reply.blockchain_tx_id

\* C25: an evidence generation during which document storage or the ledger
\* gateway was unavailable answers with an error and leaves the incidents,
\* their evidence pointer, hash and transaction reference included, as they
\* were.
C25_UnavailableLeavesIncident ==
  [][ ( /\ reply'.op = "generate_efir"
        /\ <<reply, incidents>>' # <<reply, incidents>>
        /\ reply'.code # 404
        /\ (reply'.code = 500 \/ reply'.gateway = "unavailable") )
      => /\ reply'.code >= 500
         /\ incidents' = incidents ]_vars

\* C26: a gateway error during the ledger submission is retried: when the
\* gateway was unavailable to an evidence generation, more than one
\* submission was attempted before the call answered.
C26_GatewayErrorRetried ==
  (reply.op = "generate_efir" /\ reply.gateway = "unavailable") => reply.posts > 1

\* C27: wait_for_confirmation returns either the first event of its
\* subscription whose transaction identifier is the one asked for, every
\* earlier event being one of another transaction, or, when the timeout
\* ends it, None; it never ends in another way, and no step of it changes
\* the stored transactions.
C27_WaitReturnsOwnEventOrNone ==
  [][ /\ (waiter.pc = "listening" /\ waiter'.pc = "returned")
         => \/ /\ waiter'.outcome = "timeout"
               /\ waiter'.result = NoEvent
            \/ /\ waiter'.outcome = "event"
               /\ waiter'.result.tx_id = waiter.tx_id
               /\ waiter'.result = channel[waiter.next]
               /\ \A k \in waiter.sub..(waiter.next - 1) :
                    channel[k].tx_id # waiter.tx_id
      /\ waiter' # waiter => blockchain_tx' = blockchain_tx ]_vars

\* C27 witness: the call has returned the event of its transaction after
\* skipping an event of another transaction
C27_Witness ==
  /\ waiter.pc = "returned"
  /\ waiter.outcome = "event"
  /\ \E k \in waiter.sub..(waiter.next - 2) : channel[k].tx_id # waiter.tx_id

\* C28: the simulated and the bridged mode keep the same contract.  In
\* either mode an accepted submission leaves a pending record, every
\* recorded transaction is eventually confirmed with a block number, and a
\* confirmation event carries the identifier, operation, block number and
\* confirmation time of its record.
C28_ModesSameContract ==
  /\ [][ \A t \in {u \in blockchain_tx' : u.tx_id \notin TxIdsOf(blockchain_tx)} :
            /\ reply'.op = "submit" /\ reply'.code = 200 /\ reply'.id = t.tx_id
            /\ tx_status(t) = "pending" ]_vars
  /\ \A tx_id \in TxIds :
        (tx_id \in TxIdsOf(blockchain_tx))
        ~> LET record == get_tx_record(blockchain_tx, tx_id)
           IN tx_status(record) = "confirmed" /\ record.block_no # NoBlock
  /\ [](\A k \in 1..Len(channel) :
          LET record == get_tx_record(blockchain_tx, channel[k].tx_id)
          IN channel[k] = ConfirmationEvent(record.tx_id, record.op_type,
                                            record.block_no, record.confirmed_at))

\* C29: two compositions from the same incident, the same members and the
\* same generation time give the same document and the same hash, and two
\* compositions that differ in a field of a member alert, and in nothing
\* else, give different hashes.
C29_EvidenceDeterminism ==
  \A i, j \in 1..Len(efir) :
    /\ ( /\ efir[i].incident = efir[j].incident
         /\ efir[i].members = efir[j].members
         /\ efir[i].generated = efir[j].generated )
       => /\ efir[i].pdf_data = efir[j].pdf_data
          /\ efir[i].sha256_hash = efir[j].sha256_hash
    /\ ( /\ efir[i].incident = efir[j].incident
         /\ efir[i].generated = efir[j].generated
         /\ efir[i].members # efir[j].members )
       => efir[i].sha256_hash # efir[j].sha256_hash

\* request q has stored the alert it was sent with
StoredBy(q) == pc[q] \notin {"start"} /\ resp[q].status # "IntegrityError"

\* the alerts of these identifiers were all captured within the window
\* before the present instant
CapturedInWindow(ids) ==
  \A q \in Reqs :
    (StoredBy(q) /\ SentId(q) \in Range(ids))
    => now - alert_data[q].timestamp <= WindowHours

\* C30: only alerts whose capture timestamp, as supplied by the caller, lies
\* within the window before the processing instant are clustered: the
\* alerts a request counts into its cluster, and the alerts it puts into a
\* new incident, were all captured within the window.
C30_CaptureTimeDecides ==
  [][ \A r \in Reqs :
        /\ (pc[r] = "published" /\ pc'[r] = "decided")
           => CapturedInWindow(decision'[r].ids)
        /\ (pc[r] = "decided" /\ pc'[r] = "committed")
           => CapturedInWindow(decision[r].ids) ]_vars

\* the stored state of both services
Stored == <<alerts, incidents, events, blockchain_tx, channel>>

\* C31: a get, an update or an evidence generation for an incident
\* identifier that is not stored, and a status request for a transaction
\* identifier that is not stored, answers 404, changes no stored state, puts
\* no document into storage and makes no ledger call.
C31_MissingIsNotFound ==
  [][ /\ ( /\ pc' = pc
           /\ reply'.op \in {"get_incident", "update_incident", "generate_efir"}
           /\ ~\E i \in incidents : i.incident_id = reply'.id )
         => /\ reply'.code = 404
            /\ Stored' = Stored
            /\ fabric_calls' = fabric_calls
            /\ reply'.posts = 0 /\ reply'.puts = 0
      /\ ( /\ pc' = pc
           /\ reply'.op = "status"
           /\ reply'.id \notin TxIdsOf(blockchain_tx) )
         => /\ reply'.code = 404
            /\ Stored' = Stored
            /\ fabric_calls' = fabric_calls ]_vars

\* C31 witness: an incident and a transaction are stored, and the last
\* request, for another identifier, was answered 404
C31_Witness ==
  /\ incidents # {} /\ blockchain_tx # {}
  /\ reply.code = 404
  /\ reply.op \in {"get_incident", "update_incident", "generate_efir", "status"}

\* the alerts that belong to an incident
Assigned(rows) == {a \in rows : a.incident_id # NoIncident}

\* C32: the clustering snapshot holds only alerts without incident, so
\* with ingestions processed one at a time no alert that belongs to an
\* incident is counted by a later request, none is listed in a later
\* incident, and none has its incident_id changed.
C32_SettledAlertsStaySettled ==
  [][ /\ \A r \in Reqs :
           (pc[r] = "published" /\ pc'[r] = "decided")
           => \A a \in Assigned(alerts) : a.alert_id \notin Range(decision'[r].ids)
      /\ \A a \in Assigned(alerts) :
           /\ AlertRow(alerts', a.alert_id).incident_id = a.incident_id
           /\ \A i \in incidents' \ incidents : a.alert_id \notin Range(i.alerts) ]_vars

\* C32 witness: after the settled incident a second one has been created
\* at the same place, and no settled alert is among its members
C32_Witness ==
  \E i \in incidents :
    /\ i.incident_id # SettledIncidentId
    /\ \A a \in alerts : a.lat = 1 /\ a.lng = 1
    /\ Range(i.alerts) \cap Range(SettledIds) = {}
    /\ \A a \in SettledAlerts : AlertRow(alerts, a.alert_id).incident_id = SettledIncidentId

\* C33: every alert that is ingested with both coordinates present is
\* correlated against the snapshot, whatever the values of the coordinates,
\* 0 included: the stored candidates within the radius are all counted, and
\* when they and the new alert reach the threshold an incident is decided.
C33_ZeroIsACoordinate ==
  [][ \A r \in Reqs :
        (pc[r] = "published" /\ pc'[r] = "decided" /\ HasCoords(alertObj[r]))
        => LET near == {c \in ClusterQuery(alerts, now) :
                          c.alert_id # alertObj[r].alert_id /\ Near(alertObj[r], c)}
           IN /\ IdsOf(near) \subseteq Range(decision'[r].ids)
              /\ Cardinality(near) + 1 >= Threshold => decision'[r].should ]_vars

\* the frame of an answered update: the three fields take the supplied
\* values and keep the others; identifier, member list, evidence pointer,
\* evidence hash and ledger transaction reference, the other incidents and
\* all alerts are as before
UpdateFrame(old, new, u) ==
  /\ new.status = IF u.status # "none" THEN u.status ELSE old.status
  /\ new.assigned_unit = IF u.assigned_unit # "none" THEN u.assigned_unit
                         ELSE old.assigned_unit
  /\ new.priority = IF u.priority # NoPriority THEN u.priority ELSE old.priority
  /\ new.incident_id = old.incident_id
  /\ new.alerts = old.alerts
  /\ new.efir_pointer = old.efir_pointer
  /\ new.efir_hash = old.efir_hash
  /\ new.blockchain_tx_id = old.blockchain_tx_id
  /\ incidents' \ {new} = incidents \ {old}
  /\ alerts' = alerts

\* a step that answers an update with the incident
UpdateAnswered ==
  /\ pc' = pc /\ now' = now
  /\ reply'.op = "update_incident" /\ reply'.code = 200
  /\ <<reply, incidents>>' # <<reply, incidents>>

\* C34: an incident update sets exactly the fields its body supplies, among
\* status, assigned unit and priority, to the supplied values; the other
\* fields of the incident except its update timestamp, its member list,
\* evidence pointer, evidence hash and ledger transaction reference, the
\* other incidents and all alerts are as before.  The update timestamp
\* becomes the time of the update when the body supplies a field.
C34_UpdateFrame ==
  [][ UpdateAnswered
      => LET old == IncidentRow(incidents, reply'.id)
             new == IncidentRow(incidents', reply'.id)
             u == reply'.body
         IN /\ UpdateFrame(old, new, u)
            /\ new.updated_at = IF u = NoBody THEN old.updated_at ELSE now ]_vars

\* C34 as stated: every field of the incident outside status, assigned unit
\* and priority, the update timestamp included, is as before
C34_UpdateFrameAllFields ==
  [][ UpdateAnswered
      => LET old == IncidentRow(incidents, reply'.id)
             new == IncidentRow(incidents', reply'.id)
         IN /\ UpdateFrame(old, new, reply'.body)
            /\ new.updated_at = old.updated_at ]_vars

\* C34 witness: an update that supplied the status alone has been answered,
\* later than the incident was created, for an incident that has a unit
\* assigned and evidence generated
C34_Witness ==
  /\ reply.op = "update_incident" /\ reply.code = 200
  /\ reply.body.status # "none"
  /\ reply.body.assigned_unit = "none" /\ reply.body.priority = NoPriority
  /\ \E i \in incidents :
       /\ i.incident_id = reply.id
       /\ i.status = reply.body.status
       /\ i.assigned_unit = "unit-7"
       /\ i.efir_pointer # "none"
       /\ i.updated_at = now /\ now > 0

\* C35: every composed evidence document lists the member alerts in
\* ascending order of alert identifier, in whatever order the store returned
\* them.
C35_MembersAscending ==
  \A k \in 1..Len(efir) :
    \A i, j \in 1..Len(efir[k].pdf_data.alerts) :
      i < j => efir[k].pdf_data.alerts[i].alert_id < efir[k].pdf_data.alerts[j].alert_id

\* C36: in fake mode anchor_evidence returns 'fake_tx_' followed by the
\* first 16 characters of the evidence hash (all of a shorter hash) and makes
\* no call of the gateway; in real mode it returns the tx_id field of the
\* response the gateway gave.
C36_AnchorIdentifier ==
  reply.op = "anchor_evidence" =>
    LET h == reply.efir_hash
        tx == reply.blockchain_tx_id
        n == IF Len(h) < FakeTxHashChars THEN Len(h) ELSE FakeTxHashChars
    IN IF use_fake_blockchain
       THEN /\ Len(tx) = Len("fake_tx_") + n
            /\ SubSeq(tx, 1, Len("fake_tx_")) = "fake_tx_"
            /\ \A k \in 1..n : SubSeq(tx, Len("fake_tx_") + k, Len("fake_tx_") + k)
                                  = SubSeq(h, k, k)
            /\ reply.posts = 0 /\ reply.gateway = "not_called"
       ELSE reply.response # NoResponse => tx = reply.response.tx_id

\* C36 witness: a hash of more than 16 characters has been anchored in fake
\* mode
C36_Witness ==
  /\ reply.op = "anchor_evidence"
  /\ use_fake_blockchain
  /\ Len(reply.efir_hash) > FakeTxHashChars
  /\ reply.blockchain_tx_id # "none"

\* C37: wait_for_confirmation returns the confirmation of a transaction
\* that is confirmed before the timeout expires, also when the confirmation
\* event was published before the subscription took effect: a wait for a
\* transaction whose event is on the channel ahead of the subscription does
\* not end with None.
C37_EarlyConfirmationReturned ==
  [][ ( /\ waiter.pc = "listening"
        /\ waiter'.pc = "returned"
        /\ waiter'.outcome = "timeout" )
      => ~ \E k \in 1..(waiter.sub - 1) :
             /\ channel[k].tx_id = waiter.tx_id
             /\ tx_status(get_tx_record(blockchain_tx, waiter.tx_id)) = "confirmed" ]_vars

\* C38: whatever the interleaving of evidence-generation requests, the
\* evidence pointer, evidence hash and ledger transaction reference stored
\* on an incident are those of one and the same request, and the stored hash
\* is the one that request submitted for anchoring and was given the stored
\* transaction reference for.
C38_EvidenceFromOneRequest ==
  \A i \in incidents :
    i.efir_pointer # "none" =>
      \E g \in Gens :
        /\ generation[g].pc = "done" /\ generation[g].code = 200
        /\ generation[g].incident[1].incident_id = i.incident_id
        /\ generation[g].efir_pointer = i.efir_pointer
        /\ generation[g].efir_hash = i.efir_hash
        /\ generation[g].blockchain_tx_id = i.blockchain_tx_id
        /\ generation[g].anchored_hash = i.efir_hash

\* C38 witness: two requests for the same incident, with different digests,
\* have both stored their evidence, and the incident holds that of one of
\* them, anchored
C38_Witness ==
  \E g, h \in Gens :
    /\ g # h
    /\ generation[g].pc = "done" /\ generation[g].code = 200
    /\ generation[h].pc = "done" /\ generation[h].code = 200
    /\ generation[g].efir_hash # generation[h].efir_hash
    /\ \E i \in incidents :
         /\ i.efir_pointer = generation[g].efir_pointer
         /\ i.blockchain_tx_id # "none"

\* C39: a transaction's record is marked confirmed before its confirmation
\* event is published: every event on the channel is of a record that is
\* confirmed, and a subscriber that has received the event of a transaction
\* and then queries its status is answered confirmed.
C39_ConfirmedBeforePublished ==
  /\ [](\A k \in 1..Len(channel) :
          tx_status(get_tx_record(blockchain_tx, channel[k].tx_id)) = "confirmed")
  /\ [][ ( /\ reply' # reply
            /\ reply'.op = "status"
            /\ waiter.pc = "returned" /\ waiter.outcome = "event"
            /\ waiter.result.tx_id = reply'.id )
          => reply'.code = 200 /\ reply'.status = "confirmed" ]_vars

\* C39 witness: the subscriber has received the event of a transaction and
\* its status query has been answered
C39_Witness ==
  /\ waiter.pc = "returned" /\ waiter.outcome = "event"
  /\ reply.op = "status" /\ reply.code = 200
  /\ reply.id = waiter.result.tx_id
  /\ reply.status = "confirmed"

====
